---------------------------- MODULE Spec2Model ----------------------------
(***************************************************************************)
(* Model of the BitJita map generator (scripts/generator_core.py and the   *)
(* older single-file variant scripts/generate_geojson.py).                 *)
(*                                                                         *)
(* The module holds one state machine per component:                       *)
(*   SpecLimiter  RateLimiter.acquire called by several threads            *)
(*   SpecLimiterFair  the same with the wait for the lock, fairly scheduled *)
(*   SpecRetry    _get_with_retries, one call                              *)
(*   SpecClient   the BitJitaClient operations, one call                   *)
(*   SpecChunks   process_empires_to_chunkmap, one call                    *)
(*   SpecMain     the loop of generate_geojson.main that builds the same   *)
(*                map, one run                                             *)
(*   SpecPolys    build_owner_and_contested_polys, or the same lists built *)
(*                by generate_geojson.main, one call                       *)
(*   SpecAdjacency  the adjacency build of generate_geojson.main           *)
(*   SpecColor    the colouring: the greedy loop of generate_geojson.main  *)
(*                and apply_colors_from_store, run up to MaxPasses times   *)
(*   SpecMerge    merge_owner_geometries, one call                         *)
(*   SpecColorIO  apply_colors_from_store with load and save failures      *)
(* Each specification moves its own variables and leaves the others at     *)
(* their initial values.                                                   *)
(***************************************************************************)
EXTENDS Integers, Sequences, FiniteSets, TLC

VARIABLES
    \* ---- RateLimiter (generator_core.py 64-93) ----
    now,          \* time.monotonic(), in ticks of 10 ms since construction
    tokens,       \* self._tokens
    last,         \* self._last
    lockHolder,   \* thread inside "with self._lock", 0 when the lock is free
    lpc,          \* per thread: "idle", "entering" (waits for the lock, only
                  \* in SpecLimiterFair), "locked", "sleeping", "returned"
    cost,         \* per thread: the argument of the current acquire call
    localNow,     \* per thread: the local variable now (line 84)
    wakeAt,       \* per thread: first tick at which time.sleep has elapsed
    granted,      \* per thread: tokens the current call deducted (history)
    availAtDeduct,\* per thread: self._tokens just before the deduction
    waited,       \* per thread: the current call went through time.sleep
    calls,        \* number of acquire calls started so far
    unitOnly,     \* every acquire call so far had cost 1 (history)
    returnsAt,    \* per tick: number of acquire calls that returned then
    credited,     \* tokens added to self._tokens by line 86 so far (history)
    \* ---- _get_with_retries (generator_core.py 96-134) ----
    rpc,          \* "acquire", "get", "sleep", "returned", "raised"
    attempt,      \* the loop variable attempt
    acquires,     \* completed limiter.acquire() calls (history)
    gets,         \* session.get attempts made (history)
    outcomes,     \* outcome of each session.get, in order (history)
    sleeps,       \* completed time.sleep calls of the retry loop (history)
    pendingSleep, \* argument of the time.sleep about to run, NoSleep if none
    afterSleep,   \* what follows that sleep: "continue" or "raise_status"
    rresult,      \* how the call ended: value returned or exception raised
    \* ---- BitJitaClient (generator_core.py 137-220) ----
    cop,          \* the operation called, "none" before the call
    cbody,        \* what response.json() gives for the response's body
    cresult,      \* what the operation returned or raised
    \* ---- process_empires_to_chunkmap (generator_core.py 260-351) ----
    emps,         \* emps_to_process: sequence of owner keys <<id, name>>
    cap,          \* args.max_towers_per_empire
    verbose,      \* args.verbose
    max_features, \* args.max_features (read by generate_geojson.main only)
    mloop,        \* generate_geojson.main: the future whose towers the loop is
                  \* going through, the next tower, towers_handled and the
                  \* number of chunks of that tower's block added so far
    tstate,       \* per task: "new" (not submitted), "pending", "done" or
                  \* "collected"
    tinput,       \* per task: what client.fetch_towers gave it (history)
    tresult,      \* per task: the future's result, or its exception
    results,      \* the list results, in the order of collection
    sortedRes,    \* sorted(results, key=(id, name)), set when the merge starts
    mergeIdx,     \* next element of sortedRes to merge
    chunkmap,     \* chunk -> set of owner keys
    ppc,          \* orchestrator: "idle" before the call, then "submit",
                  \* "collect", "merge", "done" and the name of the stage
                  \* that read the map last, or "interrupted" and "raised";
                  \* in generate_geojson.main "main_submit", "main_collect",
                  \* then "main_failing" and "main_raised", or
                  \* "main_interrupted", or "main_emit"
    \* ---- build_owner_and_contested_polys (generator_core.py 354-381) ----
    polyMap,      \* the argument chunkmap: chunk -> set of owner keys
    polyShapely,  \* HAS_SHAPELY
    polyFn,       \* the function that builds the lists: generator_core's
                  \* build_owner_and_contested_polys or generate_geojson's main
    polyOrder,    \* the chunks in the order the loop visits them
    polyIdx,      \* next element of polyOrder
    owner_polys,  \* owner key -> list of polygons
    contested_polys, \* list of polygons
    polyFailed,   \* the chunks whose Polygon constructor raised (history)
    polyPc,       \* "idle" before the call, then "loop" or "returned"
    \* ---- adjacency build (generate_geojson.py 349-414) ----
    adjNodes,     \* nodes: the keys of merged_owner_geoms, in dict order
    adjGeoms,     \* the geometry of each node (geom_list)
    adjExtra,     \* further owners in nodes whose geometry meets no other
    adjStrtree,   \* STRtree is not None
    adjForce,     \* args.force_pairwise
    adjRegime,    \* "none" before the call, then "pairwise" or "index"
    adjacency,    \* owner key -> set of owner keys
    adjPairs,     \* pairwise regime: the pairs (i, j) still to test, in order
    adjI,         \* index regime: the loop variable i
    adjCands,     \* index regime: candidates of owner i still to resolve
    adjPc,        \* "idle", "pairs", "build", "query", "cands" or "done"
    adjOk,        \* the tests (i, j) that went through (history)
    adjFailed,    \* the tests (i, j) that raised or did not resolve (history)
    adjIndexFault,\* building the index or a query raised (history)
    \* ---- colouring: generate_geojson.py 424-436 (greedy) and
    \*      generator_core.py 408-467 (apply_colors_from_store) ----
    colVariant,   \* which of the two runs: "greedy" or "store"; "none" before
    colNodes,     \* nodes, in the order of merged_owner_geoms
    colAdj,       \* adjacency: owner key -> set of owner keys
    colOrder,     \* the order of the loop: sorted_nodes (greedy), nodes (store)
    colIdx,       \* next element of colOrder
    assigned_color, \* owner key -> colour
    colPath,      \* color_store_path is given
    colFile,      \* the YAML file at color_store_path
    store,        \* the dict store: empire id -> [name, color]
    store_updated,\* the flag store_updated
    colPc,        \* "idle", "loop" or "returned"
    colPass,      \* number of the run, over the same nodes and adjacency
    colLoaded,    \* store as load_color_store gave it to this run (history)
    colFileAtStart, \* colFile when this run started (history)
    colMutated,   \* some entry of store was added or changed in this run (history)
    colSaves,     \* save_color_store calls of this run (history)
    colPinned,    \* empire id -> the colour it first had persisted, for the ids
                  \* with a persisted colour when this run started (history)
    colIo,        \* what the file system and PyYAML did to this run's load
                  \* and save, and whether colFile was written by
                  \* save_color_store (history)
    \* ---- merge_owner_geometries (generator_core.py 384-405) ----
    mrgOwners,    \* the keys of the argument owner_polys, in dict order
    mrgPolys,     \* the argument owner_polys: owner key -> list of polygons
    mrgShapely,   \* HAS_SHAPELY
    mrgIdx,       \* next element of mrgOwners
    merged_owner_geoms, \* owner key -> merged geometry
    mrgFailed,    \* the owners whose union raised (history)
    mrgPc         \* "idle" before the call, then "loop", "returned" or "raised"

limVars == <<now, tokens, last, lockHolder, lpc, cost, localNow, wakeAt,
             granted, availAtDeduct, waited, calls, unitOnly, returnsAt,
             credited>>

retryVars == <<rpc, attempt, acquires, gets, outcomes, sleeps, pendingSleep,
               afterSleep, rresult>>

clientVars == <<cop, cbody, cresult>>

chunkVars == <<emps, cap, verbose, max_features, mloop, tstate, tinput, tresult, results, sortedRes, mergeIdx,
               chunkmap, ppc>>

polyVars == <<polyMap, polyShapely, polyFn, polyOrder, polyIdx, owner_polys,
              contested_polys, polyFailed, polyPc>>

\* the state of the territory, adjacency and colouring stages
adjVars == <<adjNodes, adjGeoms, adjExtra, adjStrtree, adjForce, adjRegime,
             adjacency, adjPairs, adjI, adjCands, adjPc, adjOk, adjFailed,
             adjIndexFault>>

colVars == <<colVariant, colNodes, colAdj, colOrder, colIdx, assigned_color,
             colPath, colFile, store, store_updated, colPc, colPass, colLoaded,
             colFileAtStart, colMutated, colSaves, colPinned, colIo>>

mrgVars == <<mrgOwners, mrgPolys, mrgShapely, mrgIdx, merged_owner_geoms, mrgFailed,
             mrgPc>>

stageVars == <<polyVars, adjVars, colVars, mrgVars>>

vars == <<limVars, retryVars, clientVars, chunkVars, stageVars>>

\* what each component leaves alone
LimFrame == UNCHANGED <<retryVars, clientVars, chunkVars, stageVars>>
RetryFrame == UNCHANGED <<limVars, clientVars, chunkVars, stageVars>>
ClientFrame == UNCHANGED <<limVars, chunkVars, stageVars>>
ChunkFrame == UNCHANGED <<limVars, retryVars, clientVars, stageVars>>
ApiFrame == UNCHANGED <<limVars, retryVars, clientVars, chunkVars>>
PolyFrame == ApiFrame /\ UNCHANGED <<adjVars, colVars, mrgVars>>
AdjFrame == ApiFrame /\ UNCHANGED <<polyVars, colVars, mrgVars>>
ColFrame == ApiFrame /\ UNCHANGED <<polyVars, adjVars, mrgVars>>
MrgFrame == ApiFrame /\ UNCHANGED <<polyVars, adjVars, colVars>>

Max(a, b) == IF a >= b THEN a ELSE b
Min(a, b) == IF a <= b THEN a ELSE b

RECURSIVE SumTo(_, _, _)
\* f[lo] + ... + f[hi]
SumTo(f, lo, hi) == IF lo > hi THEN 0 ELSE f[lo] + SumTo(f, lo + 1, hi)

(***************************************************************************)
(* _get_with_retries.  Durations are in milliseconds.                      *)
(***************************************************************************)
\* line 96: max_retries: int = 4
max_retries == 4
\* line 103: backoff_base = 0.5 (seconds)
backoff_base_ms == 500
\* lines 111, 129: random.random() * 0.1 lies in [0, 100) ms
BackoffJitters == {0, 99}
\* line 121: random.random() * 0.2 lies in [0, 200) ms
RetryAfterJitters == {0, 199}

\* A text is the sequence of the code points (ord) of its characters; Ord
\* gives the code point of the ASCII characters this module writes
Ord(c) ==
    CASE c = " " -> 32 [] c = "+" -> 43 [] c = "-" -> 45 [] c = "." -> 46
      [] c = "0" -> 48 [] c = "1" -> 49 [] c = "2" -> 50 [] c = "3" -> 51
      [] c = "4" -> 52 [] c = "5" -> 53 [] c = "6" -> 54 [] c = "7" -> 55
      [] c = "8" -> 56 [] c = "9" -> 57 [] c = "_" -> 95 [] c = "a" -> 97
      [] c = "e" -> 101 [] c = "f" -> 102 [] c = "i" -> 105 [] c = "n" -> 110
      [] c = "t" -> 116 [] c = "x" -> 120 [] c = "y" -> 121

Text(s) == [i \in 1..Len(s) |-> Ord(s[i])]

\* response.headers.get("Retry-After"): None or the header's text
NoHeader == [present |-> FALSE, text |-> <<>>]
Header(text) == [present |-> TRUE, text |-> text]
\* Retry-After header values tried: absent, "0", " 2\xa0" (a no-break space,
\* which http.client keeps in the value), "1.5", "-1", "-0.1995", "x", "inf",
\* "nan" and "9223372036"
Headers == {NoHeader, Header(Text(<<"0">>)), Header(Text(<<" ", "2">>) \o <<160>>),
            Header(Text(<<"1", ".", "5">>)), Header(Text(<<"-", "1">>)),
            Header(Text(<<"-", "0", ".", "1", "9", "9", "5">>)),
            Header(Text(<<"x">>)), Header(Text(<<"i", "n", "f">>)),
            Header(Text(<<"n", "a", "n">>)),
            Header(Text(<<"9", "2", "2", "3", "3", "7", "2", "0", "3", "6">>))}

\* the exceptions of Python 3.11 that are not subclasses of Exception:
\* BaseException itself and its direct subclasses other than Exception.
\* asyncio.CancelledError is one of them; concurrent.futures.CancelledError
\* is another class, a subclass of Exception
BaseExceptions == {"BaseException", "BaseExceptionGroup", "GeneratorExit",
                   "KeyboardInterrupt", "SystemExit", "asyncio.CancelledError"}
\* those of them that end a session.get here: Ctrl-C and sys.exit
Interruptions == {"KeyboardInterrupt", "SystemExit"}
\* exceptions of session.get that are Exceptions but no RequestException
OtherErrors == {"UnicodeError", "concurrent.futures.CancelledError"}
\* response statuses tried
Statuses == {200, 304, 404, 429, 503}

\* the code points of "0" .. "9"
Digits == 48..57
DigitVal(c) == c - 48

RECURSIVE DigitsValue(_)
\* the number a sequence of digit values spells
DigitsValue(ds) ==
    IF ds = <<>> THEN 0
    ELSE 10 * DigitsValue(SubSeq(ds, 1, Len(ds) - 1)) + ds[Len(ds)]

\* the white space float(text) ignores at both ends of the text: \t \n \v \f
\* \r and the space
Whitespace == {9, 10, 11, 12, 13, 32}

\* the characters beyond ASCII that str.isspace() holds to be white space
\* (Unicode 14.0): \x85, \xa0, U+1680, U+2000..U+200A, U+2028, U+2029,
\* U+202F, U+205F, U+3000
UnicodeSpaces ==
    {133, 160, 5760} \cup (8192..8202) \cup {8232, 8233, 8239, 8287, 12288}

\* the code points of the digit zero of every script with decimal digits
\* beyond ASCII (Unicode 14.0); the digits one to nine follow each of them
DecimalZeros ==
    {1632, 1776, 1984, 2406, 2534, 2662, 2790, 2918, 3046, 3174, 3302, 3430,
     3558, 3664, 3792, 3872, 4160, 4240, 6112, 6160, 6470, 6608, 6784, 6800,
     6992, 7088, 7232, 7248, 42528, 43216, 43264, 43472, 43504, 43600,
     44016, 65296, 66720, 68912, 69734, 69872, 69942, 70096, 70384, 70736,
     70864, 71248, 71360, 71472, 71904, 72016, 72784, 73040, 73120, 92768,
     92864, 93008, 120782, 120792, 120802, 120812, 120822, 123200, 123632,
     125264, 130032}

\* float(text) first rewrites the characters beyond ASCII: white space to a
\* space, a decimal digit of any script to its ASCII digit, any other to "?"
ToAscii(c) ==
    IF c < 127 THEN c
    ELSE IF c \in UnicodeSpaces THEN 32
    ELSE IF \E z \in DecimalZeros : c \in z..(z + 9)
         THEN 48 + c - (CHOOSE z \in DecimalZeros : c \in z..(z + 9))
    ELSE 63

AsciiText(s) == [i \in 1..Len(s) |-> ToAscii(s[i])]

\* the text from its first character that is no white space on
StripLeft(s) ==
    IF \A i \in 1..Len(s) : s[i] \in Whitespace THEN <<>>
    ELSE SubSeq(s, CHOOSE i \in 1..Len(s) :
                       s[i] \notin Whitespace
                           /\ \A j \in 1..(i - 1) : s[j] \in Whitespace,
                Len(s))

\* the text up to its last character that is no white space
StripRight(s) ==
    IF \A i \in 1..Len(s) : s[i] \in Whitespace THEN <<>>
    ELSE SubSeq(s, 1, CHOOSE i \in 1..Len(s) :
                          s[i] \notin Whitespace
                              /\ \A j \in (i + 1)..Len(s) : s[j] \in Whitespace)

\* float(text) reads "inf", "infinity", "nan" and the exponent mark "e" in
\* either case
Lower(c) == IF c \in 65..90 THEN c + 32 ELSE c

LowerText(s) == [i \in 1..Len(s) |-> Lower(s[i])]

\* digits with single underscores between them: "1_000" but not "_1", "1_",
\* "1__0"
DigitGroup(s) ==
    /\ s # <<>>
    /\ s[1] \in Digits
    /\ s[Len(s)] \in Digits
    /\ \A i \in 1..Len(s) : s[i] \in Digits \cup {Ord("_")}
    /\ \A i \in 1..(Len(s) - 1) : ~(s[i] = Ord("_") /\ s[i + 1] = Ord("_"))

\* the values of the digits of s, its underscores left out
OnlyDigits(s) ==
    LET ds == SelectSeq(s, LAMBDA c : c \in Digits)
    IN [i \in 1..Len(ds) |-> DigitVal(ds[i])]

WithoutLeadingZeros(ds) ==
    IF \A i \in 1..Len(ds) : ds[i] = 0 THEN <<>>
    ELSE SubSeq(ds, CHOOSE i \in 1..Len(ds) :
                        ds[i] # 0 /\ \A j \in 1..(i - 1) : ds[j] = 0,
                Len(ds))

\* the position of the first c in s, 0 if there is none
FirstIndex(s, c) ==
    IF \E i \in 1..Len(s) : s[i] = c
    THEN CHOOSE i \in 1..Len(s) : s[i] = c /\ \A j \in 1..(i - 1) : s[j] # c
    ELSE 0

\* an unsigned decimal text cut into integer part, fraction part and exponent
DecimalParts(body) ==
    LET e == FirstIndex(body, Ord("e"))
        mant == IF e = 0 THEN body ELSE SubSeq(body, 1, e - 1)
        expo == IF e = 0 THEN <<>> ELSE SubSeq(body, e + 1, Len(body))
        esigned == expo # <<>> /\ expo[1] \in {Ord("+"), Ord("-")}
        d == FirstIndex(mant, Ord("."))
    IN [ip |-> IF d = 0 THEN mant ELSE SubSeq(mant, 1, d - 1),
        fp |-> IF d = 0 THEN <<>> ELSE SubSeq(mant, d + 1, Len(mant)),
        hasExp |-> e # 0,
        eneg |-> expo # <<>> /\ expo[1] = Ord("-"),
        edigits |-> IF esigned THEN Tail(expo) ELSE expo]

\* digits [. digits] [e [sign] digits], with at least one digit before the e
IsDecimal(body) ==
    LET p == DecimalParts(body)
    IN /\ p.ip # <<>> \/ p.fp # <<>>
       /\ p.ip = <<>> \/ DigitGroup(p.ip)
       /\ p.fp = <<>> \/ DigitGroup(p.fp)
       /\ p.hasExp => DigitGroup(p.edigits)

\* 0.a < 0.b for two sequences of digit values read as decimal fractions
FracLess(a, b) ==
    LET n == Max(Len(a), Len(b))
        da(i) == IF i <= Len(a) THEN a[i] ELSE 0
        db(i) == IF i <= Len(b) THEN b[i] ELSE 0
    IN /\ \E i \in 1..n : da(i) # db(i)
       /\ LET d == CHOOSE i \in 1..n :
                       da(i) # db(i) /\ \A j \in 1..(i - 1) : da(j) = db(j)
          IN da(d) < db(d)

\* The largest double is 2^1024 - 2^971.  A text that spells the number half
\* a step above it, 2^1024 - 2^970, or more is read as an infinity; these are
\* the 309 digits of 2^1024 - 2^970.
DoubleOverflow ==
    <<1,7,9,7,6,9,3,1,3,4,8,6,2,3,1,5,8,0,7,9,3,7,2,8,9,7,1,4,0,5,3,0,3,4,1,
      5,0,7,9,9,3,4,1,3,2,7,1,0,0,3,7,8,2,6,9,3,6,1,7,3,7,7,8,9,8,0,4,4,4,9,
      6,8,2,9,2,7,6,4,7,5,0,9,4,6,6,4,9,0,1,7,9,7,7,5,8,7,2,0,7,0,9,6,3,3,0,
      2,8,6,4,1,6,6,9,2,8,8,7,9,1,0,9,4,6,5,5,5,5,4,7,8,5,1,9,4,0,4,0,2,6,3,
      0,6,5,7,4,8,8,6,7,1,5,0,5,8,2,0,6,8,1,9,0,8,9,0,2,0,0,0,7,0,8,3,8,3,6,
      7,6,2,7,3,8,5,4,8,4,5,8,1,7,7,1,1,5,3,1,7,6,4,4,7,5,7,3,0,2,7,0,0,6,9,
      8,5,5,5,7,1,3,6,6,9,5,9,6,2,2,8,4,2,9,1,4,8,1,9,8,6,0,8,3,4,9,3,6,4,7,
      5,2,9,2,7,1,9,0,7,4,1,6,8,4,4,4,3,6,5,5,1,0,7,0,4,3,4,2,7,1,1,5,5,9,6,
      9,9,5,0,8,0,9,3,0,4,2,8,8,0,1,7,7,9,0,4,1,7,4,4,9,7,7,9,2>>

\* The smallest double is 2^-1074.  A text that spells half of it, 2^-1075,
\* or less is read as 0.0; 2^-1075 is 5^1075 / 10^1075, and these are the 752
\* digits of 5^1075: 2^-1075 = 0.24703... * 10^-323.
DoubleUnderflow ==
    <<2,4,7,0,3,2,8,2,2,9,2,0,6,2,3,2,7,2,0,8,8,2,8,4,3,9,6,4,3,4,1,1,0,6,8,
      6,1,8,2,5,2,9,9,0,1,3,0,7,1,6,2,3,8,2,2,1,2,7,9,2,8,4,1,2,5,0,3,3,7,7,
      5,3,6,3,5,1,0,4,3,7,5,9,3,2,6,4,9,9,1,8,1,8,0,8,1,7,9,9,6,1,8,9,8,9,8,
      2,8,2,3,4,7,7,2,2,8,5,8,8,6,5,4,6,3,3,2,8,3,5,5,1,7,7,9,6,9,8,9,8,1,9,
      9,3,8,7,3,9,8,0,0,5,3,9,0,9,3,9,0,6,3,1,5,0,3,5,6,5,9,5,1,5,5,7,0,2,2,
      6,3,9,2,2,9,0,8,5,8,3,9,2,4,4,9,1,0,5,1,8,4,4,3,5,9,3,1,8,0,2,8,4,9,9,
      3,6,5,3,6,1,5,2,5,0,0,3,1,9,3,7,0,4,5,7,6,7,8,2,4,9,2,1,9,3,6,5,6,2,3,
      6,6,9,8,6,3,6,5,8,4,8,0,7,5,7,0,0,1,5,8,5,7,6,9,2,6,9,9,0,3,7,0,6,3,1,
      1,9,2,8,2,7,9,5,5,8,5,5,1,3,3,2,9,2,7,8,3,4,3,3,8,4,0,9,3,5,1,9,7,8,0,
      1,5,5,3,1,2,4,6,5,9,7,2,6,3,5,7,9,5,7,4,6,2,2,7,6,6,4,6,5,2,7,2,8,2,7,
      2,2,0,0,5,6,3,7,4,0,0,6,4,8,5,4,9,9,9,7,7,0,9,6,5,9,9,4,7,0,4,5,4,0,2,
      0,8,2,8,1,6,6,2,2,6,2,3,7,8,5,7,3,9,3,4,5,0,7,3,6,3,3,9,0,0,7,9,6,7,7,
      6,1,9,3,0,5,7,7,5,0,6,7,4,0,1,7,6,3,2,4,6,7,3,6,0,0,9,6,8,9,5,1,3,4,0,
      5,3,5,5,3,7,4,5,8,5,1,6,6,6,1,1,3,4,2,2,3,7,6,6,6,7,8,6,0,4,1,6,2,1,5,
      9,6,8,0,4,6,1,9,1,4,4,6,7,2,9,1,8,4,0,3,0,0,5,3,0,0,5,7,5,3,0,8,4,9,0,
      4,8,7,6,5,3,9,1,7,1,1,3,8,6,5,9,1,6,4,6,2,3,9,5,2,4,9,1,2,6,2,3,6,5,3,
      8,8,1,8,7,9,6,3,6,2,3,9,3,7,3,2,8,0,4,2,3,8,9,1,0,1,8,6,7,2,3,4,8,4,9,
      7,6,6,8,2,3,5,0,8,9,8,6,3,3,8,8,5,8,7,9,2,5,6,2,8,3,0,2,7,5,5,9,9,5,6,
      5,7,5,2,4,4,5,5,5,0,7,2,5,5,1,8,9,3,1,3,6,9,0,8,3,6,2,5,4,7,7,9,1,8,6,
      9,4,8,6,6,7,9,9,4,9,6,8,3,2,4,0,4,9,7,0,5,8,2,1,0,2,8,5,1,3,1,8,5,4,5,
      1,3,9,6,2,1,3,8,3,7,7,2,2,8,2,6,1,4,5,4,3,7,6,9,3,4,1,2,5,3,2,0,9,8,5,
      9,1,3,2,7,6,6,7,2,3,6,3,2,8,1,2,5>>

NotAFloat == [ok |-> FALSE, cls |-> "none", neg |-> FALSE, digits |-> <<>>, point |-> 0]
Infinity(neg) == [ok |-> TRUE, cls |-> "inf", neg |-> neg, digits |-> <<>>, point |-> 0]
NaN(neg) == [ok |-> TRUE, cls |-> "nan", neg |-> neg, digits |-> <<>>, point |-> 0]
\* the number 0.d1 d2 ... dn * 10^point, negated when neg
Finite(neg, digits, point) ==
    [ok |-> TRUE, cls |-> "finite", neg |-> neg, digits |-> digits, point |-> point]

\* float(text) on a text: ok is FALSE where float raises ValueError, else
\* the value is an infinity, a nan, or the decimal number the text spells
ParseFloat(text) ==
    LET s == LowerText(StripRight(StripLeft(AsciiText(text))))
        signed == s # <<>> /\ s[1] \in {Ord("+"), Ord("-")}
        neg == s # <<>> /\ s[1] = Ord("-")
        body == IF signed THEN Tail(s) ELSE s
    IN IF body \in {Text(<<"i", "n", "f">>),
                    Text(<<"i", "n", "f", "i", "n", "i", "t", "y">>)}
       THEN Infinity(neg)
       ELSE IF body = Text(<<"n", "a", "n">>) THEN NaN(neg)
       ELSE IF ~IsDecimal(body) THEN NotAFloat
       ELSE LET p == DecimalParts(body)
                fd == OnlyDigits(p.fp)
                ds == WithoutLeadingZeros(OnlyDigits(p.ip) \o fd)
                ed == WithoutLeadingZeros(OnlyDigits(p.edigits))
                \* the exponent's size, which the conversion clips at
                \* 1100000000 (here from ten digits on)
                emag == IF Len(ed) > 9 THEN 1100000000 ELSE DigitsValue(ed)
                point == Len(ds) - Len(fd) + (IF p.eneg THEN 0 - emag ELSE emag)
            IN IF ds = <<>> THEN Finite(neg, <<>>, 0)
               ELSE IF point > 309
                       \/ (point = 309 /\ ~FracLess(ds, DoubleOverflow))
               THEN Infinity(neg)
               ELSE IF point < 0 - 323
                       \/ (point = 0 - 323 /\ ~FracLess(DoubleUnderflow, ds))
               THEN Finite(neg, <<>>, 0)
               ELSE Finite(neg, ds, point)

RECURSIVE Pow2(_)
Pow2(n) == IF n = 0 THEN 1 ELSE 2 * Pow2(n - 1)

\* lines 111, 118, 120, 129: backoff_base * (2 ** (attempt - 1))
Backoff(a) == backoff_base_ms * Pow2(a - 1)

Zeros(n) == [i \in 1..n |-> 0]

\* A number of milliseconds is [hi, lo], standing for hi * 10^6 + lo with lo
\* in 0 .. 10^6 - 1; a negative number has a negative hi.
Ms(n) == [hi |-> n \div 1000000, lo |-> n % 1000000]

Plus(a, b) ==
    [hi |-> a.hi + b.hi + ((a.lo + b.lo) \div 1000000),
     lo |-> (a.lo + b.lo) % 1000000]

AtLeast(a, b) == a.hi > b.hi \/ (a.hi = b.hi /\ a.lo >= b.lo)

\* 0 - a
Minus(a) ==
    IF a.lo = 0 THEN [hi |-> 0 - a.hi, lo |-> 0]
    ELSE [hi |-> 0 - a.hi - 1, lo |-> 1000000 - a.lo]

\* the number as an integer, cut off at 10^9 ms on either side
Capped(a) ==
    IF a.hi >= 1000 THEN 1000000000
    ELSE IF a.hi < 0 - 1000 THEN 0 - 1000000000
    ELSE a.hi * 1000000 + a.lo

\* A wait is [cls, floor, frac].  cls "finite": floor is the wait in
\* milliseconds, rounded down, and frac says whether a part of a millisecond
\* was cut off; "overflow": an infinity or a number of 10^10 s or more, which
\* time.sleep refuses with OverflowError; "nan": time.sleep raises ValueError.
FiniteWait(ms) == [cls |-> "finite", floor |-> Ms(ms), frac |-> FALSE]
OverflowWait == [cls |-> "overflow", floor |-> Ms(0), frac |-> FALSE]
NanWait == [cls |-> "nan", floor |-> Ms(0), frac |-> FALSE]

\* a float of seconds as a wait
Millis(f) ==
    IF f.cls = "nan" THEN NanWait
    ELSE IF f.cls = "inf" THEN OverflowWait
    ELSE LET n == Len(f.digits)
             \* the whole milliseconds are the first k digits
             k == f.point + 3
             whole == IF k <= 0 THEN Zeros(13)
                      ELSE Zeros(13 - k) \o SubSeq(f.digits \o Zeros(Max(0, k - n)), 1, k)
             mag == [hi |-> DigitsValue(SubSeq(whole, 1, 7)),
                     lo |-> DigitsValue(SubSeq(whole, 8, 13))]
             rest == \E i \in (Max(k, 0) + 1)..n : f.digits[i] # 0
         IN IF k > 13 THEN OverflowWait
            ELSE [cls |-> "finite",
                  floor |-> IF f.neg
                            THEN Minus(Plus(mag, Ms(IF rest THEN 1 ELSE 0)))
                            ELSE mag,
                  frac |-> rest]

\* lines 116-120: the wait after a 429, from the Retry-After header
RetryAfterWait(h, a) ==
    IF ~h.present THEN FiniteWait(Backoff(a))
    ELSE IF ParseFloat(h.text).ok THEN Millis(ParseFloat(h.text))
         ELSE FiniteWait(Backoff(a))

\* lines 111, 121, 129: wait + random.random() * c, for a jitter of j whole
\* milliseconds; the two parts of a millisecond add up to one more or not
Delayed(w, j) ==
    {[cls |-> w.cls, floor |-> Plus(w.floor, Ms(j + c)), frac |-> w.frac] :
        c \in IF w.cls = "finite" /\ w.frac THEN {0, 1} ELSE {0}}

\* time.sleep takes lengths below 2^63 ns = 9223372036854.775808 ms
SleepLimit == [hi |-> 9223372, lo |-> 36854]

\* readings of time.monotonic() tried, as milliseconds since the machine
\* started: a second and a year
Monotonics == {Ms(1000), [hi |-> 31536, lo |-> 0]}

\* time.sleep(w) when time.monotonic() reads mono.  A nan raises ValueError;
\* a length of 2^63 ns or more on either side of zero OverflowError; any
\* other negative length ValueError; a length that takes the deadline
\* mono + w to 2^63 ns or beyond OSError (the deadline wraps around and the
\* system call refuses it); else the thread sleeps.  Where the answer hangs on
\* the part of a millisecond that floor leaves out, both answers are given.
SleepOutcomes(w, mono) ==
    LET t == w.floor
        deadline == Plus(mono, t)
        above == Plus(SleepLimit, Ms(1))
    IN IF w.cls = "nan" THEN {"ValueError"}
       ELSE IF w.cls = "overflow" THEN {"OverflowError"}
       ELSE IF AtLeast(t, above) THEN {"OverflowError"}
       ELSE IF ~AtLeast(t, Minus(above)) THEN {"OverflowError"}
       ELSE IF t = Minus(above) THEN {"OverflowError", "ValueError"}
       ELSE IF t.hi < 0 THEN {"ValueError"}
       ELSE (IF t = SleepLimit THEN {"OverflowError"} ELSE {})
               \cup (IF AtLeast(deadline, above) THEN {"OSError"}
                     ELSE IF AtLeast(Plus(deadline, Ms(1)), SleepLimit)
                     THEN {"OSError", "slept"}
                     ELSE {"slept"})

\* requests.Response.raise_for_status raises HTTPError for 400 <= status < 600
RaisesForStatus(st) == 400 <= st /\ st < 600

\* mutant of FinalCheckRaises: the response is returned unchecked
FinalCheckSkipped(st) == FALSE

\* line 133: the raise_for_status call before "return response"
FinalCheckRaises(st) == RaisesForStatus(st)

\* mutant of IsLastAttempt: the last attempt is taken to be one later
IsLastAttemptOffByOne(a) == a = max_retries + 1

\* lines 109, 122, 127: attempt == max_retries
IsLastAttempt(a) == a = max_retries

\* mutant of LoopTop: limiter.acquire() only before the first attempt
LoopTopWithoutAcquire == "get"

\* lines 104-105: every iteration of the loop starts with limiter.acquire()
LoopTop == "acquire"

NoSleep == [wait |-> FiniteWait(0), kind |-> "none"]
NoResult == [kind |-> "none", status |-> 0]
Transport == [kind |-> "transport", status |-> 0, header |-> NoHeader]
\* session.get ends in an exception that is no requests.RequestException
Escaped(name) == [kind |-> name, status |-> 0, header |-> NoHeader]
Response(st, h) == [kind |-> "response", status |-> st, header |-> h]

\* the outcomes session.get can have: requests.RequestException, another
\* exception, or a response; only a 429 is given a Retry-After header here
GetOutcomes ==
    {Transport}
        \cup {Escaped(name) : name \in Interruptions \cup OtherErrors}
        \cup {Response(st, NoHeader) : st \in Statuses}
        \cup {Response(429, h) : h \in Headers}

RetryInit ==
    /\ rpc = "acquire"
    /\ attempt = 1
    /\ acquires = 0
    /\ gets = 0
    /\ outcomes = <<>>
    /\ sleeps = <<>>
    /\ pendingSleep = NoSleep
    /\ afterSleep = "continue"
    /\ rresult = NoResult

\* line 105: limiter.acquire() returns
RetryAcquire ==
    /\ rpc = "acquire"
    /\ acquires' = acquires + 1
    /\ rpc' = "get"
    /\ UNCHANGED <<attempt, gets, outcomes, sleeps, pendingSleep, afterSleep, rresult>>
    /\ RetryFrame

Raise(exc, st) ==
    /\ rpc' = "raised"
    /\ rresult' = [kind |-> exc, status |-> st]
    /\ pendingSleep' = NoSleep
    /\ afterSleep' = "continue"

StartSleep(w, kind, after) ==
    /\ rpc' = "sleep"
    /\ pendingSleep' = [wait |-> w, kind |-> kind]
    /\ afterSleep' = after
    /\ UNCHANGED rresult

\* lines 106-134: session.get and the handling of its outcome up to the next
\* time.sleep, return or raise
RetryGet(o) ==
    /\ rpc = "get"
    /\ gets' = gets + 1
    /\ outcomes' = Append(outcomes, o)
    /\ IF o.kind = "transport"
       THEN \* lines 108-113
            IF IsLastAttempt(attempt)
            THEN Raise("RequestException", 0)
            ELSE \E j \in BackoffJitters :
                     \E w \in Delayed(FiniteWait(Backoff(attempt)), j) :
                         StartSleep(w, "backoff", "continue")
       ELSE IF o.kind # "response"
       THEN \* line 108 catches requests.RequestException only
            Raise(o.kind, 0)
       ELSE IF o.status = 429
       THEN \* lines 115-121
            \E j \in RetryAfterJitters :
                \E w \in Delayed(RetryAfterWait(o.header, attempt), j) :
                    StartSleep(w,
                               IF o.header.present /\ ParseFloat(o.header.text).ok
                               THEN "retry_after" ELSE "backoff",
                               IF IsLastAttempt(attempt) THEN "raise_status"
                               ELSE "continue")
       ELSE IF 500 <= o.status /\ o.status < 600
       THEN \* lines 126-131
            IF IsLastAttempt(attempt) /\ RaisesForStatus(o.status)
            THEN Raise("HTTPError", o.status)
            ELSE \E j \in BackoffJitters :
                     \E w \in Delayed(FiniteWait(Backoff(attempt)), j) :
                         StartSleep(w, "backoff", "continue")
       ELSE \* lines 133-134
            IF FinalCheckRaises(o.status)
            THEN Raise("HTTPError", o.status)
            ELSE /\ rpc' = "returned"
                 /\ rresult' = [kind |-> "response", status |-> o.status]
                 /\ UNCHANGED <<pendingSleep, afterSleep>>
    /\ UNCHANGED <<attempt, acquires, sleeps>>
    /\ RetryFrame

\* lines 112, 121-124, 130: time.sleep runs, or raises (SleepOutcomes); after
\* it the 429 branch of the last attempt raises, or the loop continues; a
\* loop that runs out of attempts falls off the end and returns None
RetrySleep ==
    /\ rpc = "sleep"
    /\ \E mono \in Monotonics : \E out \in SleepOutcomes(pendingSleep.wait, mono) :
          LET last429 == outcomes[Len(outcomes)].status
          IN IF out # "slept"
             THEN /\ Raise(out, last429)
                  /\ UNCHANGED <<attempt, sleeps>>
             ELSE /\ sleeps' = Append(sleeps,
                                      [attempt |-> attempt,
                                       ms |-> Capped(pendingSleep.wait.floor),
                                       kind |-> pendingSleep.kind])
                  /\ IF afterSleep = "raise_status" /\ RaisesForStatus(last429)
                     THEN /\ Raise("HTTPError", last429)
                          /\ UNCHANGED attempt
                     ELSE /\ attempt' = attempt + 1
                          /\ pendingSleep' = NoSleep
                          /\ afterSleep' = "continue"
                          /\ IF attempt + 1 <= max_retries
                             THEN /\ rpc' = LoopTop
                                  /\ UNCHANGED rresult
                             ELSE /\ rpc' = "returned"
                                  /\ rresult' = [kind |-> "None", status |-> 0]
    /\ UNCHANGED <<acquires, gets, outcomes>>
    /\ RetryFrame

RetryNext ==
    \/ RetryAcquire
    \/ \E o \in GetOutcomes : RetryGet(o)
    \/ RetrySleep

(***************************************************************************)
(* BitJitaClient.  A JSON value is [t, n, f]: its type, its length (or,    *)
(* for a number, its value) and, for an object, its members.               *)
(***************************************************************************)
NoMembers == <<>>
JNull == [t |-> "null", n |-> 0, f |-> NoMembers]
JInt(k) == [t |-> "int", n |-> k, f |-> NoMembers]
JList(k) == [t |-> "list", n |-> k, f |-> NoMembers]
JDict(members) == [t |-> "dict", n |-> Cardinality(DOMAIN members), f |-> members]
\* an object whose members are not inspected by the client
JOpaqueDict(k) == [t |-> "dict", n |-> k, f |-> NoMembers]
EmptyList == JList(0)
EmptyDict == JOpaqueDict(0)
\* response.json() raised: the body is not JSON
InvalidBody == [t |-> "invalid", n |-> 0, f |-> NoMembers]
NoBody == [t |-> "nobody", n |-> 0, f |-> NoMembers]

Member(k, v) == [x \in {k} |-> v]

\* the bodies tried
Bodies ==
    { InvalidBody, JNull, JList(2), EmptyDict,
      JDict(Member("empires", JList(2))),
      JDict(Member("empire", JOpaqueDict(3))),
      JDict(Member("empire", JNull)),
      JDict(Member("claim", JOpaqueDict(3))),
      JDict(Member("claim", EmptyDict)),
      JDict(Member("claims", JList(2))),
      JDict(Member("claims", JNull)),
      JDict(Member("entityId", JInt(7))) }

Ops == {"fetch_empires", "fetch_towers", "fetch_empire", "fetch_claim",
        "fetch_claims_page"}

IsDict(v) == v.t = "dict"
\* dict.get(key): None when the key is absent
DictGet(v, k) == IF k \in DOMAIN v.f THEN v.f[k] ELSE JNull
\* Python truthiness of a JSON value
Truthy(v) == ~(v.t = "null" \/ v.n = 0)
\* "x or y"
OrElse(x, y) == IF Truthy(x) THEN x ELSE y

Value(v) == [kind |-> "value", val |-> v]
Exc(name) == [kind |-> "exception", val |-> [t |-> name, n |-> 0, f |-> NoMembers]]
NoCResult == [kind |-> "none", val |-> NoBody]

\* the value the operation returns on its error paths
EmptyOf(op) ==
    IF op \in {"fetch_empire", "fetch_claim"} THEN EmptyDict ELSE EmptyList

\* the body of the try block after _get_with_retries returned: r is what it
\* returned ("response" or "None"), data what response.json() gives
AfterResponse(op, r, data) ==
    IF r.kind = "None" THEN Value(EmptyOf(op))
    ELSE IF data = InvalidBody THEN Exc("JSONDecodeError")
    ELSE CASE op = "fetch_empires" ->
               \* line 149: response.json().get("empires", [])
               IF ~IsDict(data) THEN Exc("AttributeError")
               ELSE IF "empires" \in DOMAIN data.f THEN Value(data.f["empires"])
                    ELSE Value(EmptyList)
           [] op = "fetch_towers" ->
               \* line 159
               Value(data)
           [] op = "fetch_empire" ->
               \* lines 174-179
               IF IsDict(data) /\ DictGet(data, "empire") # JNull
               THEN Value(OrElse(DictGet(data, "empire"), EmptyDict))
               ELSE IF IsDict(data) THEN Value(data) ELSE Value(EmptyDict)
           [] op = "fetch_claim" ->
               \* lines 193-199
               IF IsDict(data) /\ DictGet(data, "claim") # JNull
               THEN Value(OrElse(DictGet(data, "claim"), EmptyDict))
               ELSE IF IsDict(data) /\ DictGet(data, "entityId") # JNull
                    THEN Value(data) ELSE Value(EmptyDict)
           [] op = "fetch_claims_page" ->
               \* lines 213-218
               IF IsDict(data) /\ DictGet(data, "claims") # JNull
               THEN Value(OrElse(DictGet(data, "claims"), EmptyList))
               ELSE IF data.t = "list" THEN Value(data) ELSE Value(EmptyList)

\* mutant of Catches: only the HTTP library's errors are caught
CatchesRequestErrorsOnly(name) == name \in {"RequestException", "HTTPError"}

\* "except Exception" catches every exception but those outside Exception
Catches(name) == name \notin BaseExceptions

\* the whole operation: try: _get_with_retries, parse; except Exception: empty
ClientResult(op, r, data) ==
    LET inner == IF r.kind \in {"response", "None"}
                 THEN AfterResponse(op, r, data)
                 ELSE Exc(r.kind)
    IN IF inner.kind = "exception" /\ Catches(inner.val.t)
       THEN Value(EmptyOf(op))
       ELSE inner

ClientInit ==
    /\ cop = "none"
    /\ cbody = NoBody
    /\ cresult = NoCResult

\* a BitJitaClient operation is called and enters _get_with_retries
ClientCall(op) ==
    /\ cop = "none"
    /\ cop' = op
    /\ UNCHANGED <<cbody, cresult>>
    /\ UNCHANGED retryVars
    /\ ClientFrame

\* _get_with_retries has ended; the operation parses the body and returns
ClientFinish(data) ==
    /\ cop # "none"
    /\ cresult = NoCResult
    /\ rpc \in {"returned", "raised"}
    /\ cbody' = data
    /\ cresult' = ClientResult(cop, rresult, data)
    /\ UNCHANGED cop
    /\ UNCHANGED retryVars
    /\ ClientFrame

ClientNext ==
    \/ \E op \in Ops : ClientCall(op)
    \/ (cop # "none" /\ RetryAcquire)
    \/ (cop # "none" /\ \E o \in GetOutcomes : RetryGet(o))
    \/ (cop # "none" /\ RetrySleep)
    \/ \E data \in (IF rpc = "returned" /\ rresult.kind = "response"
                    THEN Bodies ELSE {NoBody}) : ClientFinish(data)

(***************************************************************************)
(* coords.py and process_empires_to_chunkmap                               *)
(***************************************************************************)
\* bound: the number of empires in emps_to_process
NumEmps == 2

\* coords.py line 27: the chunk side length
ChunkSize == 96
\* generator_core.py line 313: the largest accepted coordinate
MaxCoord == 23040
\* generator_core.py line 322: radius_chunks=2
RadiusChunks == 2

\* owner keys tried: empire 1 under two names, and empire 2
Names == <<"a", "b">>
OwnerKeys == {<<1, "a">>, <<1, "b">>, <<2, "a">>}
\* values of args.max_towers_per_empire tried
CapValues == {0, 1}
\* the arguments tried: no cap and a cap of 1, and no cap with args.verbose
ArgValues == {[cap |-> c, verbose |-> FALSE] : c \in CapValues}
                 \cup {[cap |-> 0, verbose |-> TRUE]}

\* a field of a tower record: absent (or null), a number, or a string
Absent == [t |-> "none", v |-> 0]
Num(k) == [t |-> "num", v |-> k]
Str == [t |-> "str", v |-> 0]
\* tower records; isdict is FALSE for a list element that is not an object
Tower(act, x, y) == [isdict |-> TRUE, active |-> act, x |-> x, y |-> y]
NotADict == [isdict |-> FALSE, active |-> "absent", x |-> Absent, y |-> Absent]
TA == Tower("absent", Num(100), Num(100))
TB == Tower("true", Num(100), Num(196))
TC == Tower("true", Num(5000), Num(5000))
TInactive == Tower("false", Num(100), Num(100))
TBadX == Tower("true", Str, Num(100))
\* towers at and around the limits of the accepted coordinates
TZeroX == Tower("true", Num(0), Num(100))
TNoY == Tower("true", Num(100), Absent)
TOverY == Tower("absent", Num(100), Num(MaxCoord + 1))
TNullActive == Tower("null", Num(100), Num(100))
TMax == Tower("true", Num(MaxCoord), Num(MaxCoord))

\* what client.fetch_towers can give a task: [] after a failed request, or
\* the JSON value of the body.  towers is what iterating the value yields: the
\* elements of a list, the keys of an object, the characters of a string
\* (keys and characters are strings, which have no .get); null, a number and
\* a boolean cannot be iterated and have no len()
FetchFailed == [k |-> "failed", towers |-> <<>>]
TowerList(ts) == [k |-> "list", towers |-> ts]
JsonObject(n) == [k |-> "dict", towers |-> [i \in 1..n |-> NotADict]]
JsonString(n) == [k |-> "str", towers |-> [i \in 1..n |-> NotADict]]
JsonScalar == [k |-> "scalar", towers |-> <<>>]
\* the values tried: [], null, {}, a string of one character, and lists
TowerInputs ==
    { FetchFailed, JsonScalar, JsonObject(0), JsonString(1),
      TowerList(<<TA>>), TowerList(<<TA, TB>>), TowerList(<<TA, NotADict>>),
      TowerList(<<TBadX, TInactive, TZeroX, TNoY, TOverY, TNullActive, TC, TMax>>) }

\* coords.py 26-27: smallhex_to_chunk
smallhex_to_chunk(small_x, small_y) == <<small_x \div ChunkSize, small_y \div ChunkSize>>

\* coords.py 42-50: tower_covered_chunks, in the order it yields them
tower_covered_chunks(small_x, small_y, radius_chunks) ==
    LET c == smallhex_to_chunk(small_x, small_y)
        w == 2 * radius_chunks + 1
    IN [k \in 1..(w * w) |->
           <<c[1] + ((k - 1) \div w) - radius_chunks,
             c[2] + ((k - 1) % w) - radius_chunks>>]

\* line 306: not tower.get("active", True)
NotActive(tw) == tw.active \in {"false", "null"}

\* lines 310-316: the coordinate checks that skip a tower ("<=" or ">" on a
\* string raises TypeError, which is caught and skips the tower too)
SkipsCoordinates(tw) ==
    \/ tw.x.t = "none" \/ tw.y.t = "none"
    \/ tw.x.t = "str" \/ tw.y.t = "str"
    \/ tw.x.v <= 0 \/ tw.y.v <= 0 \/ tw.x.v > MaxCoord \/ tw.y.v > MaxCoord

RECURSIVE TowerLoop(_, _, _, _, _)
\* lines 303-324: the loop over towers from index i on, with local_chunks and
\* towers_handled so far; a list element without .get raises AttributeError
TowerLoop(towers, i, c, chunks, handled) ==
    IF i > Len(towers) THEN [kind |-> "ok", chunks |-> chunks, handled |-> handled]
    ELSE IF c > 0 /\ handled >= c
         THEN [kind |-> "ok", chunks |-> chunks, handled |-> handled]
    ELSE IF ~towers[i].isdict
         THEN [kind |-> "exception", chunks |-> <<>>, handled |-> 0]
    ELSE IF NotActive(towers[i]) \/ SkipsCoordinates(towers[i])
         THEN TowerLoop(towers, i + 1, c, chunks, handled)
    ELSE TowerLoop(towers, i + 1, c,
                   chunks \o tower_covered_chunks(towers[i].x.v, towers[i].y.v,
                                                  RadiusChunks),
                   handled + 1)

\* lines 288-298: the value fetch_emp iterates.  With args.verbose the log
\* line of 295 takes len(towers) inside the try: on a value without len() it
\* raises TypeError, which line 296 catches, and towers becomes []
TowersFetched(input, vb) ==
    IF vb /\ input.k = "scalar" THEN FetchFailed ELSE input

\* lines 286-326: fetch_emp; "for tower in towers" on a value that cannot be
\* iterated raises TypeError, tower.get on an element that is no object
\* raises AttributeError, and the exception leaves the task through its future
fetch_emp(emp, input, c, vb) ==
    IF TowersFetched(input, vb).k = "scalar"
    THEN [kind |-> "exception", eid |-> emp[1], name |-> emp[2], chunks |-> <<>>,
          handled |-> 0]
    ELSE LET r == TowerLoop(TowersFetched(input, vb).towers, 1, c, <<>>, 0)
         IN [kind |-> r.kind, eid |-> emp[1], name |-> emp[2], chunks |-> r.chunks,
             handled |-> r.handled]

NameRank(n) == CHOOSE k \in 1..Len(Names) : Names[k] = n
\* the sort key (r[0], r[1]) of line 341
KeyLess(r1, r2) ==
    \/ r1.eid < r2.eid
    \/ (r1.eid = r2.eid /\ NameRank(r1.name) < NameRank(r2.name))

RECURSIVE InsertSorted(_, _)
\* insert r after the elements that are not greater (a stable sort)
InsertSorted(sq, r) ==
    IF sq = <<>> THEN <<r>>
    ELSE IF KeyLess(r, Head(sq)) THEN <<r>> \o sq
         ELSE <<Head(sq)>> \o InsertSorted(Tail(sq), r)

RECURSIVE SortedResults(_)
\* line 341: sorted(results, key=lambda r: (r[0], r[1]))
SortedResults(rs) ==
    IF rs = <<>> THEN <<>>
    ELSE InsertSorted(SortedResults(SubSeq(rs, 1, Len(rs) - 1)), rs[Len(rs)])

EmptyMap == [c \in {} |-> {}]

\* mutant of MapAdd: the owner set is replaced, not extended
MapAssign(cm, c, o) ==
    [x \in (DOMAIN cm) \cup {c} |-> IF x = c THEN {o} ELSE cm[x]]

\* mutant of MapAdd: chunkmap[(cx, cy)] is read, which makes the defaultdict
\* hold the key, and the owner is added only to a set that has owners
MapAddToOwned(cm, c, o) ==
    [x \in (DOMAIN cm) \cup {c} |->
        IF x = c THEN (IF c \in DOMAIN cm THEN cm[c] \cup {o} ELSE {}) ELSE cm[x]]

\* line 343: chunkmap[(cx, cy)].add((empire_id, empire_name)) on a defaultdict
MapAdd(cm, c, o) ==
    [x \in (DOMAIN cm) \cup {c} |->
        IF x = c THEN (IF c \in DOMAIN cm THEN cm[c] ELSE {}) \cup {o} ELSE cm[x]]

\* lines 342-343: the inner loop over the result's chunks, one add per chunk
\* (the adds of different chunks touch different entries)
MapAddAll(cm, chunks, o) ==
    [x \in (DOMAIN cm) \cup chunks |->
        IF x \in chunks THEN MapAdd(cm, x, o)[x] ELSE cm[x]]

SeqToSet(sq) == {sq[k] : k \in 1..Len(sq)}

Tasks == 1..NumEmps
\* no future is being gone through
NoLoop == [task |-> 0, idx |-> 0, handled |-> 0, adds |-> 0, stop |-> FALSE]
NoTResult == [kind |-> "none", eid |-> 0, name |-> "a", chunks |-> <<>>, handled |-> 0]

\* generator_core.py 243, 370 and generate_geojson.py 172, 311:
\* chunkmap.items() gives the pairs of the keys the map holds and creates no
\* key (only a subscript with a missing key does that on a defaultdict)
MapItems(cm) == [dict |-> cm, items |-> {<<c, cm[c]>> : c \in DOMAIN cm}]

\* the functions of generator_core that read the map the builder returned:
\* the aggregation stage and the per-chunk emission
StageReaders == {"build_owner_and_contested_polys", "build_features_from_chunkmap"}

ChunkInit ==
    /\ emps = [i \in Tasks |-> <<1, "a">>]
    /\ cap = 0
    /\ verbose = FALSE
    /\ max_features = 0
    /\ mloop = NoLoop
    /\ tstate = [i \in Tasks |-> "new"]
    /\ tinput = [i \in Tasks |-> FetchFailed]
    /\ tresult = [i \in Tasks |-> NoTResult]
    /\ results = <<>>
    /\ sortedRes = <<>>
    /\ mergeIdx = 1
    /\ chunkmap = EmptyMap
    /\ ppc = "idle"

\* lines 260, 283-284, 329: the call, with its arguments; the map and the
\* pool are created
Call(es, c, vb) ==
    /\ ppc = "idle"
    /\ emps' = es
    /\ cap' = c
    /\ verbose' = vb
    /\ ppc' = "submit"
    /\ UNCHANGED <<max_features, mloop, tstate, tinput, tresult, results, sortedRes,
                   mergeIdx, chunkmap>>
    /\ ChunkFrame

\* the next empire of emps_to_process whose task is not submitted yet
NextToSubmit == CHOOSE i \in Tasks : tstate[i] = "new" /\ \A j \in 1..(i - 1) : tstate[j] # "new"

\* line 330: one pool.submit of the dict comprehension, in the order of
\* emps_to_process; after the last one the loop over as_completed starts
Submit ==
    /\ ppc = "submit"
    /\ tstate' = [tstate EXCEPT ![NextToSubmit] = "pending"]
    /\ ppc' = IF NextToSubmit = NumEmps THEN "collect" ELSE "submit"
    /\ UNCHANGED <<emps, cap, verbose, max_features, mloop, tinput, tresult, results,
                   sortedRes, mergeIdx, chunkmap>>
    /\ ChunkFrame

\* lines 330, 286-326: a pool worker runs fetch_emp for one empire whose task
\* was submitted.  The workers take the tasks while the others are still
\* being submitted, and go on with the submitted tasks when an interrupt has
\* made the orchestrating thread leave the loop, also after it has left the
\* function
TaskRun(i, input) ==
    /\ ppc \in {"submit", "collect", "interrupted", "raised"}
    /\ tstate[i] = "pending"
    /\ tstate' = [tstate EXCEPT ![i] = "done"]
    /\ tinput' = [tinput EXCEPT ![i] = input]
    /\ tresult' = [tresult EXCEPT ![i] = fetch_emp(emps[i], input, cap, verbose)]
    /\ UNCHANGED <<emps, cap, verbose, max_features, mloop, results, sortedRes, mergeIdx, chunkmap, ppc>>
    /\ ChunkFrame

\* lines 332-336: an exception of fut.result() is logged and the loop continues
OnWorkerError == "collect"

\* lines 331-339: as_completed yields a finished future; its result is
\* appended to results (then time.sleep(throttle))
Collect(i) ==
    /\ ppc = "collect"
    /\ tstate[i] = "done"
    /\ tstate' = [tstate EXCEPT ![i] = "collected"]
    /\ IF tresult[i].kind = "exception"
       THEN /\ ppc' = OnWorkerError
            /\ UNCHANGED results
       ELSE /\ results' = Append(results, tresult[i])
            /\ UNCHANGED ppc
    /\ UNCHANGED <<emps, cap, verbose, max_features, mloop, tinput, tresult, sortedRes, mergeIdx, chunkmap>>
    /\ ChunkFrame

\* lines 329-349: KeyboardInterrupt reaches the orchestrating thread.  It is
\* no Exception, so line 334 does not catch it and nothing else in the
\* function does.  Between two submits, or in as_completed, fut.result() or
\* time.sleep, it leaves the loop and the end of the "with" block waits for
\* the workers, which run the tasks submitted so far; in the merge loop,
\* after the "with" block, it leaves the function at once
Interrupt ==
    /\ ppc \in {"submit", "collect", "merge"}
    /\ ppc' = IF ppc = "merge" THEN "raised" ELSE "interrupted"
    /\ UNCHANGED <<emps, cap, verbose, max_features, mloop, tstate, tinput, tresult, results, sortedRes, mergeIdx,
                   chunkmap>>
    /\ ChunkFrame

\* line 329: a second KeyboardInterrupt while the end of the "with" block
\* waits for the workers ends the wait: the function is left with tasks
\* that have not run yet
InterruptAgain ==
    /\ ppc = "interrupted"
    /\ ppc' = "raised"
    /\ UNCHANGED <<emps, cap, verbose, max_features, mloop, tstate, tinput, tresult, results, sortedRes, mergeIdx,
                   chunkmap>>
    /\ ChunkFrame

\* line 329: the pool has shut down and the interrupt leaves the function,
\* which returns no map: results is lost
InterruptLeaves ==
    /\ ppc = "interrupted"
    /\ \A i \in Tasks : tstate[i] # "pending"
    /\ ppc' = "raised"
    /\ UNCHANGED <<emps, cap, verbose, max_features, mloop, tstate, tinput, tresult, results, sortedRes, mergeIdx,
                   chunkmap>>
    /\ ChunkFrame

\* mutant of MergeReady: the merge starts once one result is in
MergeReadyEarly == \E i \in Tasks : tstate[i] = "collected"

\* lines 329-341: the merge loop follows the "with" block, which ends when
\* every future was yielded by as_completed and the pool has shut down
MergeReady == \A i \in Tasks : tstate[i] = "collected"

\* line 341: the results are sorted for the merge
StartMerge ==
    /\ ppc = "collect"
    /\ MergeReady
    /\ sortedRes' = SortedResults(results)
    /\ mergeIdx' = 1
    /\ ppc' = "merge"
    /\ UNCHANGED <<emps, cap, verbose, max_features, mloop, tstate, tinput, tresult, results, chunkmap>>
    /\ ChunkFrame

\* lines 341-344: one iteration of the merge loop
MergeOne ==
    /\ ppc = "merge"
    /\ mergeIdx <= Len(sortedRes)
    /\ LET r == sortedRes[mergeIdx]
       IN chunkmap' = MapAddAll(chunkmap, SeqToSet(r.chunks), <<r.eid, r.name>>)
    /\ mergeIdx' = mergeIdx + 1
    /\ UNCHANGED <<emps, cap, verbose, max_features, mloop, tstate, tinput, tresult, results, sortedRes, ppc>>
    /\ ChunkFrame

\* line 351: return chunkmap, siege_points
Finish ==
    /\ ppc = "merge"
    /\ mergeIdx > Len(sortedRes)
    /\ ppc' = "done"
    /\ UNCHANGED <<emps, cap, verbose, max_features, mloop, tstate, tinput, tresult, results, sortedRes, mergeIdx,
                   chunkmap>>
    /\ ChunkFrame

\* lines 243 and 370: a later stage is given the map the builder returned
\* and goes through sorted(chunkmap.items()); the map is what the read
\* leaves of it
StageRead(fn) ==
    /\ ppc \in {"done"} \cup StageReaders
    /\ ppc # fn
    /\ chunkmap' = MapItems(chunkmap).dict
    /\ ppc' = fn
    /\ UNCHANGED <<emps, cap, verbose, max_features, mloop, tstate, tinput, tresult, results, sortedRes, mergeIdx>>
    /\ ChunkFrame

\* the lists of empires tried: the pool runs the tasks in any order and the
\* results are collected as they complete, so of the lists that differ in
\* the order of their empires the sorted one is taken
EmpLists ==
    {es \in [Tasks -> OwnerKeys] :
        \A i \in Tasks, j \in Tasks :
            i < j => \/ es[i][1] < es[j][1]
                     \/ (es[i][1] = es[j][1] /\ NameRank(es[i][2]) <= NameRank(es[j][2]))}

ChunkNext ==
    \/ (ppc = "idle" /\ \E es \in EmpLists, a \in ArgValues :
                            Call(es, a.cap, a.verbose))
    \/ Submit
    \/ \E i \in Tasks, input \in TowerInputs : TaskRun(i, input)
    \/ \E i \in Tasks : Collect(i)
    \/ Interrupt
    \/ InterruptAgain
    \/ InterruptLeaves
    \/ StartMerge
    \/ MergeOne
    \/ Finish
    \/ \E fn \in StageReaders : StageRead(fn)

(***************************************************************************)
(* generate_geojson.main, lines 224-303: the older script builds the same  *)
(* map itself, in the loop that collects the futures.                      *)
(***************************************************************************)
\* values of args.max_features tried: no limit, and the chunks of two towers
MaxFeatureValues == {0, 30}

\* generate_geojson.py 247-258: main's fetch_emp returns the towers
\* fetch_towers gave; the log line of 254 takes len(towers) inside the try
\* whatever args.verbose is, so a value without len() raises TypeError there
\* and the task returns []
main_fetch_emp(input) == IF input.k = "scalar" THEN FetchFailed ELSE input

\* generate_geojson.py 142-143: small_to_chunk
small_to_chunk(x, y) == <<x \div 96, y \div 96>>

\* generate_geojson.py 283-288: the 5 x 5 chunks around the tower's chunk, in
\* the order of the two loops over range(-2, 3)
main_block(x, y) ==
    [k \in 1..25 |->
        <<small_to_chunk(x, y)[1] + ((k - 1) \div 5) - 2,
          small_to_chunk(x, y)[2] + ((k - 1) % 5) - 2>>]

\* generate_geojson.py 268-276: what the loop body does with a record, none
\* of it inside a try: t.get on an element that is no object raises
\* AttributeError, and "x <= 0 or y <= 0 or x > 23040 or y > 23040" raises
\* TypeError at the first comparison of a string it reaches
MainTowerOutcome(tw) ==
    IF ~tw.isdict THEN "AttributeError"
    ELSE IF NotActive(tw) THEN "skip"
    ELSE IF tw.x.t = "none" \/ tw.y.t = "none" THEN "skip"
    ELSE IF tw.x.t = "str" THEN "TypeError"
    ELSE IF tw.x.v <= 0 THEN "skip"
    ELSE IF tw.y.t = "str" THEN "TypeError"
    ELSE IF tw.y.v <= 0 \/ tw.x.v > 23040 \/ tw.y.v > 23040 THEN "skip"
    ELSE "take"

\* generate_geojson.py 224-260: the map and the pool are created
MainCall(es, c, mf) ==
    /\ ppc = "idle"
    /\ emps' = es
    /\ cap' = c
    /\ max_features' = mf
    /\ ppc' = "main_submit"
    /\ UNCHANGED <<verbose, mloop, tstate, tinput, tresult, results, sortedRes,
                   mergeIdx, chunkmap>>
    /\ ChunkFrame

\* generate_geojson.py 261: one pool.submit of the dict comprehension
MainSubmit ==
    /\ ppc = "main_submit"
    /\ tstate' = [tstate EXCEPT ![NextToSubmit] = "pending"]
    /\ ppc' = IF NextToSubmit = NumEmps THEN "main_collect" ELSE "main_submit"
    /\ UNCHANGED <<emps, cap, verbose, max_features, mloop, tinput, tresult, results,
                   sortedRes, mergeIdx, chunkmap>>
    /\ ChunkFrame

\* generate_geojson.py 247-258: a pool worker runs main's fetch_emp for a
\* submitted task; the workers go on with the submitted tasks whatever the
\* orchestrating thread does, also when it has left the "with" block before
\* they were through
MainTaskRun(i, input) ==
    /\ ppc \in {"main_submit", "main_collect", "main_interrupted", "main_failing",
                "main_emit", "main_raised"}
    /\ tstate[i] = "pending"
    /\ tstate' = [tstate EXCEPT ![i] = "done"]
    /\ tinput' = [tinput EXCEPT ![i] = input]
    /\ tresult' = [tresult EXCEPT ![i] =
                      [kind |-> "towers", eid |-> emps[i][1], name |-> emps[i][2],
                       towers |-> main_fetch_emp(input).towers]]
    /\ UNCHANGED <<emps, cap, verbose, max_features, mloop, results, sortedRes, mergeIdx,
                   chunkmap, ppc>>
    /\ ChunkFrame

\* generate_geojson.py 262-264: as_completed yields a finished future and
\* fut.result() gives its towers
MainTake(i) ==
    /\ ppc = "main_collect"
    /\ mloop = NoLoop
    /\ tstate[i] = "done"
    /\ mloop' = [task |-> i, idx |-> 1, handled |-> 0, adds |-> 0, stop |-> FALSE]
    /\ UNCHANGED <<emps, cap, verbose, max_features, tstate, tinput, tresult, results,
                   sortedRes, mergeIdx, chunkmap, ppc>>
    /\ ChunkFrame

\* the loop over the towers has ended: the list is exhausted, the cap was
\* reached (line 266) or max_features was (lines 293-296)
MainLoopOver ==
    \/ mloop.idx > Len(tresult[mloop.task].towers)
    \/ mloop.stop
    \/ (cap > 0 /\ mloop.handled >= cap)

\* generate_geojson.py 265-282: the checks of one iteration of the loop over
\* the towers, in the orchestrating thread, for a record that is skipped or
\* makes the body raise: the exception leaves the loop
MainTower ==
    /\ ppc = "main_collect"
    /\ mloop # NoLoop
    /\ ~MainLoopOver
    /\ LET tw == tresult[mloop.task].towers[mloop.idx]
       IN /\ MainTowerOutcome(tw) # "take"
          /\ IF MainTowerOutcome(tw) = "skip"
             THEN /\ mloop' = [mloop EXCEPT !.idx = @ + 1]
                  /\ UNCHANGED ppc
             ELSE /\ ppc' = "main_failing"
                  /\ UNCHANGED mloop
    /\ UNCHANGED <<emps, cap, verbose, max_features, tstate, tinput, tresult, results,
                   sortedRes, mergeIdx, chunkmap>>
    /\ ChunkFrame

\* generate_geojson.py 283-296: one add of line 288 for a record that passed
\* the checks; a subscript and its add are one step (the interpreter looks
\* for a pending signal only after the call of add).  After the 25th add
\* come towers_handled += 1 and the check of max_features
MainAdd ==
    /\ ppc = "main_collect"
    /\ mloop # NoLoop
    /\ ~MainLoopOver
    /\ LET tw == tresult[mloop.task].towers[mloop.idx]
           cm == MapAdd(chunkmap, main_block(tw.x.v, tw.y.v)[mloop.adds + 1],
                        emps[mloop.task])
       IN /\ MainTowerOutcome(tw) = "take"
          /\ chunkmap' = cm
          /\ mloop' = IF mloop.adds + 1 < 25
                      THEN [mloop EXCEPT !.adds = @ + 1]
                      ELSE [mloop EXCEPT !.idx = @ + 1, !.handled = @ + 1, !.adds = 0,
                                         !.stop = max_features > 0
                                                    /\ Cardinality(DOMAIN cm) >= max_features]
    /\ UNCHANGED <<emps, cap, verbose, max_features, tstate, tinput, tresult, results,
                   sortedRes, mergeIdx, ppc>>
    /\ ChunkFrame

\* generate_geojson.py 298-300: processed += 1, the line printed for the
\* empire, time.sleep(throttle)
MainEmpireDone ==
    /\ ppc = "main_collect"
    /\ mloop # NoLoop
    /\ MainLoopOver
    /\ results' = Append(results, [eid |-> emps[mloop.task][1],
                                   name |-> emps[mloop.task][2],
                                   handled |-> mloop.handled])
    /\ tstate' = [tstate EXCEPT ![mloop.task] = "collected"]
    /\ mloop' = NoLoop
    /\ UNCHANGED <<emps, cap, verbose, max_features, tinput, tresult, sortedRes, mergeIdx,
                   chunkmap, ppc>>
    /\ ChunkFrame

\* generate_geojson.py 260-300: the pool has shut down and the exception of
\* the loop body leaves the "with" block and, "except KeyboardInterrupt"
\* (line 301) not catching it, main
MainAbort ==
    /\ ppc = "main_failing"
    /\ \A i \in Tasks : tstate[i] # "pending"
    /\ ppc' = "main_raised"
    /\ UNCHANGED <<emps, cap, verbose, max_features, mloop, tstate, tinput, tresult,
                   results, sortedRes, mergeIdx, chunkmap>>
    /\ ChunkFrame

\* generate_geojson.py 260-300: KeyboardInterrupt reaches the orchestrating
\* thread between two submits or in the loop, between two adds of a tower
\* too; the end of the "with" block waits for the workers
MainInterrupt ==
    /\ ppc \in {"main_submit", "main_collect"}
    /\ ppc' = "main_interrupted"
    /\ UNCHANGED <<emps, cap, verbose, max_features, mloop, tstate, tinput, tresult,
                   results, sortedRes, mergeIdx, chunkmap>>
    /\ ChunkFrame

\* generate_geojson.py 260, 301-303: KeyboardInterrupt reaches the
\* orchestrating thread while the end of the "with" block waits for the
\* workers, after an interrupt or after an exception of the loop body, which
\* it replaces: the wait ends with tasks that have not run yet, line 301
\* catches the interrupt and main goes on to the features
MainInterruptInWait ==
    /\ ppc \in {"main_interrupted", "main_failing"}
    /\ ppc' = "main_emit"
    /\ UNCHANGED <<emps, cap, verbose, max_features, mloop, tstate, tinput, tresult,
                   results, sortedRes, mergeIdx, chunkmap>>
    /\ ChunkFrame

\* generate_geojson.py 301-303: the pool has shut down, the interrupt is
\* caught and main goes on to the features with the map as it is
MainInterruptCaught ==
    /\ ppc = "main_interrupted"
    /\ \A i \in Tasks : tstate[i] # "pending"
    /\ ppc' = "main_emit"
    /\ UNCHANGED <<emps, cap, verbose, max_features, mloop, tstate, tinput, tresult,
                   results, sortedRes, mergeIdx, chunkmap>>
    /\ ChunkFrame

\* generate_geojson.py 262, 303: every future was yielded and gone through
MainLoopEnd ==
    /\ ppc = "main_collect"
    /\ \A i \in Tasks : tstate[i] = "collected"
    /\ ppc' = "main_emit"
    /\ UNCHANGED <<emps, cap, verbose, max_features, mloop, tstate, tinput, tresult,
                   results, sortedRes, mergeIdx, chunkmap>>
    /\ ChunkFrame

MainNext ==
    \/ (ppc = "idle" /\ \E es \in EmpLists, c \in CapValues, mf \in MaxFeatureValues :
                            MainCall(es, c, mf))
    \/ MainSubmit
    \/ \E i \in Tasks, input \in TowerInputs : MainTaskRun(i, input)
    \/ \E i \in Tasks : MainTake(i)
    \/ MainTower
    \/ MainAdd
    \/ MainEmpireDone
    \/ MainAbort
    \/ MainInterrupt
    \/ MainInterruptInWait
    \/ MainInterruptCaught
    \/ MainLoopEnd

(***************************************************************************)
(* RateLimiter                                                             *)
(***************************************************************************)
\* bounds of the limiter model
NumThreads == 2
MaxTime == 3
MaxCalls == 3
MaxCost == 3

Threads == 1..NumThreads
Ticks == 0..MaxTime

\* One tick is 10 ms, so the "+ 0.01" of line 93 is exactly one tick.
TicksPerMin == 6000
\* constructor arguments: rate_per_min = 6000 (one token per tick), capacity = 2
RatePerMinArg == 6000
CapacityArg == 2

\* self.rate_per_min = max(1, int(rate_per_min))
rate_per_min == Max(1, RatePerMinArg)
\* self.rate_per_sec, expressed per tick (exact for multiples of 6000)
rate_per_tick == rate_per_min \div TicksPerMin
\* self.capacity = capacity if capacity is not None else min(rate_per_min, 10)
capacity == CapacityArg

\* mutant of Refill: the refill is not capped
RefillUncapped(tok, elapsed) == tok + elapsed * rate_per_tick

\* line 86: min(capacity, _tokens + elapsed * rate_per_sec)
Refill(tok, elapsed) == Min(capacity, tok + elapsed * rate_per_tick)

\* lines 91-93: needed / rate_per_sec + 0.01, in ticks, rounded up to a tick
SleepTicks(needed) == ((needed + rate_per_tick - 1) \div rate_per_tick) + 1

LimInit ==
    /\ now = 0
    /\ tokens = 0
    /\ last = 0
    /\ lockHolder = 0
    /\ lpc = [t \in Threads |-> "idle"]
    /\ cost = [t \in Threads |-> 1]
    /\ localNow = [t \in Threads |-> 0]
    /\ wakeAt = [t \in Threads |-> 0]
    /\ granted = [t \in Threads |-> 0]
    /\ availAtDeduct = [t \in Threads |-> 0]
    /\ waited = [t \in Threads |-> FALSE]
    /\ calls = 0
    /\ unitOnly = TRUE
    /\ returnsAt = [k \in Ticks |-> 0]
    /\ credited = 0

\* lines 82-84: a call enters "with self._lock" and reads the clock
AcquireLock(t, c) ==
    /\ lpc[t] \in {"idle", "returned"}
    /\ calls < MaxCalls
    /\ lockHolder = 0
    /\ lockHolder' = t
    /\ lpc' = [lpc EXCEPT ![t] = "locked"]
    /\ cost' = [cost EXCEPT ![t] = c]
    /\ localNow' = [localNow EXCEPT ![t] = now]
    /\ granted' = [granted EXCEPT ![t] = 0]
    /\ availAtDeduct' = [availAtDeduct EXCEPT ![t] = 0]
    /\ waited' = [waited EXCEPT ![t] = FALSE]
    /\ calls' = calls + 1
    /\ unitOnly' = (unitOnly /\ c = 1)
    /\ UNCHANGED <<now, tokens, last, wakeAt, returnsAt, credited>>
    /\ LimFrame

\* mutant of LockAfterBookkeep: the lock is kept by the caller that left
LockAfterBookkeepHeld(t) == t

\* mutant of LockAfterBookkeep: the sleep is inside "with self._lock"
LockAfterBookkeepSleeping(t) ==
    IF Refill(tokens, localNow[t] - last) >= cost[t] THEN 0 ELSE t

\* lines 83-92: the end of "with self._lock" releases the lock, on the return
\* of line 90 and on the way to the sleep of line 93
LockAfterBookkeep(t) == 0

\* lines 85-92: refill, then deduct and return, or compute the wait; the lock
\* is released on both paths
Bookkeep(t) ==
    /\ lpc[t] = "locked"
    /\ lockHolder = t
    /\ LET elapsed == localNow[t] - last
           refilled == Refill(tokens, elapsed)
       IN IF refilled >= cost[t]
          THEN /\ tokens' = refilled - cost[t]
               /\ last' = localNow[t]
               /\ lpc' = [lpc EXCEPT ![t] = "returned"]
               /\ granted' = [granted EXCEPT ![t] = cost[t]]
               /\ availAtDeduct' = [availAtDeduct EXCEPT ![t] = refilled]
               /\ returnsAt' = [returnsAt EXCEPT ![now] = @ + 1]
               /\ localNow' = [localNow EXCEPT ![t] = 0]
               /\ UNCHANGED <<wakeAt>>
          ELSE /\ tokens' = refilled
               /\ wakeAt' = [wakeAt EXCEPT ![t] = now + SleepTicks(cost[t] - refilled)]
               /\ lpc' = [lpc EXCEPT ![t] = "sleeping"]
               /\ localNow' = [localNow EXCEPT ![t] = 0]
               /\ UNCHANGED <<last, granted, availAtDeduct, returnsAt>>
    /\ credited' = credited + (Refill(tokens, localNow[t] - last) - tokens)
    /\ lockHolder' = LockAfterBookkeep(t)
    /\ UNCHANGED <<now, cost, waited, calls, unitOnly>>
    /\ LimFrame

\* line 93: time.sleep(wait + 0.01) has elapsed; acquire returns
WakeAndReturn(t) ==
    /\ lpc[t] = "sleeping"
    /\ now >= wakeAt[t]
    /\ lpc' = [lpc EXCEPT ![t] = "returned"]
    /\ waited' = [waited EXCEPT ![t] = TRUE]
    /\ returnsAt' = [returnsAt EXCEPT ![now] = @ + 1]
    /\ wakeAt' = [wakeAt EXCEPT ![t] = 0]
    /\ UNCHANGED <<now, tokens, last, lockHolder, cost, localNow,
                   granted, availAtDeduct, calls, unitOnly, credited>>
    /\ LimFrame

\* the monotonic clock advances
Tick ==
    /\ now < MaxTime
    /\ now' = now + 1
    /\ UNCHANGED <<tokens, last, lockHolder, lpc, cost, localNow, wakeAt,
                   granted, availAtDeduct, waited, calls, unitOnly, returnsAt,
                   credited>>
    /\ LimFrame

\* line 83, first half: a call has started and waits for the lock. Each
\* thread makes one call: acquire keeps nothing per thread, so a later call
\* of the same thread is the call of another thread that comes later
Request(t, c) ==
    /\ lpc[t] = "idle"
    /\ calls < MaxCalls
    /\ lpc' = [lpc EXCEPT ![t] = "entering"]
    /\ cost' = [cost EXCEPT ![t] = c]
    /\ granted' = [granted EXCEPT ![t] = 0]
    /\ availAtDeduct' = [availAtDeduct EXCEPT ![t] = 0]
    /\ waited' = [waited EXCEPT ![t] = FALSE]
    /\ calls' = calls + 1
    /\ unitOnly' = (unitOnly /\ c = 1)
    /\ UNCHANGED <<now, tokens, last, lockHolder, localNow, wakeAt, returnsAt,
                   credited>>
    /\ LimFrame

\* lines 83-84: the waiting call gets the lock and reads the clock
Enter(t) ==
    /\ lpc[t] = "entering"
    /\ lockHolder = 0
    /\ lockHolder' = t
    /\ lpc' = [lpc EXCEPT ![t] = "locked"]
    /\ localNow' = [localNow EXCEPT ![t] = now]
    /\ UNCHANGED <<now, tokens, last, cost, wakeAt, granted, availAtDeduct,
                   waited, calls, unitOnly, returnsAt, credited>>
    /\ LimFrame

\* line 93: a sleep that ends after the last tick the model counts; the clock
\* runs on and the call returns
SleepEndsLater(t) ==
    /\ lpc[t] = "sleeping"
    /\ now = MaxTime
    /\ wakeAt[t] > MaxTime
    /\ lpc' = [lpc EXCEPT ![t] = "returned"]
    /\ waited' = [waited EXCEPT ![t] = TRUE]
    /\ returnsAt' = [returnsAt EXCEPT ![now] = @ + 1]
    /\ wakeAt' = [wakeAt EXCEPT ![t] = 0]
    /\ UNCHANGED <<now, tokens, last, lockHolder, cost, localNow,
                   granted, availAtDeduct, calls, unitOnly, credited>>
    /\ LimFrame

\* acquire with the wait for the lock as a step of its own
LimFairNext ==
    \/ \E t \in Threads, c \in 1..MaxCost : Request(t, c)
    \/ \E t \in Threads : Enter(t)
    \/ \E t \in Threads : Bookkeep(t)
    \/ \E t \in Threads : WakeAndReturn(t)
    \/ \E t \in Threads : SleepEndsLater(t)
    \/ Tick

\* the steps of a call that is under way, and of the clock
LimProgress ==
    \/ \E t \in Threads : Enter(t)
    \/ \E t \in Threads : Bookkeep(t)
    \/ \E t \in Threads : WakeAndReturn(t)
    \/ \E t \in Threads : SleepEndsLater(t)
    \/ Tick

\* fair scheduling, in its weakest form: the calls under way and the clock do
\* not all stand still for ever while one of them can take a step. A fair
\* lock, fairly scheduled threads and an advancing clock give this, and no
\* thread is obliged to start a call
LimFairness == WF_vars(LimProgress)

LimNext ==
    \/ \E t \in Threads, c \in 1..MaxCost : AcquireLock(t, c)
    \/ \E t \in Threads : Bookkeep(t)
    \/ \E t \in Threads : WakeAndReturn(t)
    \/ Tick

(***************************************************************************)
(* build_owner_and_contested_polys.  A polygon is the ring of corner points *)
(* it was built from.                                                      *)
(***************************************************************************)
\* bound: the number of chunks an argument map can hold
MaxChunks == 3

\* bound: the number of chunks of one call whose Polygon constructor raises
MaxBuildFailures == 1

\* the chunks tried: (0, 0), (0, 1), (1, 0), ...
ChunkPool == {<<k \div 2, k % 2>> : k \in 0..(MaxChunks - 1)}
\* owner sets tried: none, one owner (either of two), two owners, three
PolyOwnerSets ==
    {{}, {<<1, "a">>}, {<<1, "b">>}, {<<1, "a">>, <<1, "b">>}, OwnerKeys}
\* argument maps tried: any of these owner sets on any chunks
PolyMaps == UNION {[D -> PolyOwnerSets] : D \in SUBSET ChunkPool}

\* coords.py 30-35: chunk_bounds, the closed ring of the chunk's corners
chunk_bounds(cx, cy) ==
    LET x0 == cx * ChunkSize
        y0 == cy * ChunkSize
        x1 == (cx + 1) * ChunkSize
        y1 == (cy + 1) * ChunkSize
    IN << <<x0, y0>>, <<x1, y0>>, <<x1, y1>>, <<x0, y1>>, <<x0, y0>> >>

\* line 373: _Polygon(coords)
PolygonOf(c) == chunk_bounds(c[1], c[2])

\* the order of the keys (chunk_x, chunk_y) of line 370
ChunkLess(c, d) == c[1] < d[1] \/ (c[1] = d[1] /\ c[2] < d[2])

RECURSIVE SortedChunks(_)
\* line 370: sorted(chunkmap.items(), key=lambda kv: (kv[0][0], kv[0][1]))
SortedChunks(cs) ==
    IF cs = {} THEN <<>>
    ELSE LET m == CHOOSE c \in cs : \A d \in cs \ {c} : ChunkLess(c, d)
         IN <<m>> \o SortedChunks(cs \ {m})

\* the order of owner keys (id, name) as Python compares tuples
OwnerLess(o, p) == o[1] < p[1] \/ (o[1] = p[1] /\ NameRank(o[2]) < NameRank(p[2]))

\* line 377: sorted(owners)[0]
FirstOwner(owners) == CHOOSE o \in owners : \A p \in owners \ {o} : OwnerLess(o, p)

\* mutant of Classify: a chunk with several owners goes to the first of them
ClassifyFirstOwner(owners) ==
    IF Cardinality(owners) >= 1 THEN "owner" ELSE "skip"

\* lines 376-380: len(owners) == 1, len(owners) > 1, or neither
Classify(owners) ==
    IF Cardinality(owners) = 1 THEN "owner"
    ELSE IF Cardinality(owners) > 1 THEN "contested"
    ELSE "skip"

\* owner_polys[key].append(polygon) on a defaultdict(list)
ListAppend(d, key, x) ==
    [k \in (DOMAIN d) \cup {key} |->
        IF k = key THEN (IF key \in DOMAIN d THEN d[key] ELSE <<>>) \o <<x>>
        ELSE d[k]]

NoPolys == [o \in {} |-> <<>>]

PolyInit ==
    /\ polyMap = EmptyMap
    /\ polyShapely = TRUE
    /\ polyFn = "build_owner_and_contested_polys"
    /\ polyOrder = <<>>
    /\ polyIdx = 1
    /\ owner_polys = NoPolys
    /\ contested_polys = <<>>
    /\ polyFailed = {}
    /\ polyPc = "idle"

\* lines 354, 365-370: the call; without Shapely it returns both outputs empty
PolyCall(cm, hs) ==
    /\ polyPc = "idle"
    /\ polyMap' = cm
    /\ polyShapely' = hs
    /\ polyFn' = "build_owner_and_contested_polys"
    /\ polyOrder' = IF hs THEN SortedChunks(DOMAIN cm) ELSE <<>>
    /\ polyPc' = IF hs THEN "loop" ELSE "returned"
    /\ UNCHANGED <<polyIdx, owner_polys, contested_polys, polyFailed>>
    /\ PolyFrame

\* the orders in which a dict can hold the chunks cs: the orders of insertion
InsertionOrders(cs) ==
    {f \in [1..Cardinality(cs) -> cs] :
        \A i \in DOMAIN f, j \in DOMAIN f : i # j => f[i] # f[j]}

\* generate_geojson.py 305-311: main builds the two lists itself, visiting
\* chunkmap.items() in the order of insertion; without Shapely it builds
\* none and goes on to the per-chunk features
MainPolyCall(cm, order, hs) ==
    /\ polyPc = "idle"
    /\ polyMap' = cm
    /\ polyShapely' = hs
    /\ polyFn' = "main"
    /\ polyOrder' = IF hs THEN order ELSE <<>>
    /\ polyPc' = IF hs THEN "loop" ELSE "returned"
    /\ UNCHANGED <<polyIdx, owner_polys, contested_polys, polyFailed>>
    /\ PolyFrame

\* lines 370-380, and generate_geojson.py 311-322: one iteration of the
\* loop.  built says whether the Polygon constructor returned; when it
\* raises, lines 374-375 (main: 316-317) go on to the next chunk.  The owner
\* of a chunk with one owner is sorted(owners)[0], in main next(iter(owners))
PolyStep(built) ==
    /\ polyPc = "loop"
    /\ polyIdx <= Len(polyOrder)
    /\ built \/ Cardinality(polyFailed) < MaxBuildFailures
    /\ LET c == polyOrder[polyIdx]
           kind == IF built THEN Classify(polyMap[c]) ELSE "skip"
       IN /\ owner_polys' =
                IF kind = "owner"
                THEN ListAppend(owner_polys, FirstOwner(polyMap[c]), PolygonOf(c))
                ELSE owner_polys
          /\ contested_polys' =
                IF kind = "contested" THEN Append(contested_polys, PolygonOf(c))
                ELSE contested_polys
          /\ polyFailed' = IF built THEN polyFailed ELSE polyFailed \cup {c}
    /\ polyIdx' = polyIdx + 1
    /\ UNCHANGED <<polyMap, polyShapely, polyFn, polyOrder, polyPc>>
    /\ PolyFrame

\* line 381: return owner_polys, contested_polys; in main the loop has ended
PolyReturn ==
    /\ polyPc = "loop"
    /\ polyIdx > Len(polyOrder)
    /\ polyPc' = "returned"
    /\ UNCHANGED <<polyMap, polyShapely, polyFn, polyOrder, polyIdx, owner_polys,
                   contested_polys, polyFailed>>
    /\ PolyFrame

PolyNext ==
    \/ (polyPc = "idle" /\ \E cm \in PolyMaps, hs \in BOOLEAN : PolyCall(cm, hs))
    \/ (polyPc = "idle" /\ \E cm \in PolyMaps, hs \in BOOLEAN :
                               \E order \in InsertionOrders(DOMAIN cm) :
                                   MainPolyCall(cm, order, hs))
    \/ \E built \in BOOLEAN : PolyStep(built)
    \/ PolyReturn

(***************************************************************************)
(* The adjacency build of generate_geojson.main.  A merged geometry is the *)
(* set of chunks whose squares it unites.                                  *)
(***************************************************************************)
\* bound: the number of owners whose geometries are given
MaxOwners == 3

\* bound: the number of pair tests that raise in one build
MaxTestFailures == 2

\* line 353: len(nodes) > 50
SpatialThreshold == 50

\* owner keys given to the build, in the order of merged_owner_geoms
AdjKeys == << <<1, "a">>, <<1, "b">>, <<2, "a">>, <<2, "b">>, <<3, "a">> >>

\* geometries tried: a square, its edge neighbour, its corner neighbour, and
\* three squares apart from these whose bounding box covers them all
GeomA == {<<0, 0>>}
GeomB == {<<1, 0>>}
GeomC == {<<1, 1>>}
GeomL == {<<0, 3>>, <<3, 3>>, <<3, 0>>}
GeomPool == {GeomA, GeomB, GeomC, GeomL}

\* numbers tried of further owners in nodes, each apart from every geometry
ExtraOwners == {0, 48}

Abs(k) == IF k < 0 THEN 0 - k ELSE k

\* lines 394, 409: ga.intersects(gb) or ga.touches(gb); two unions of closed
\* chunk squares share a point iff two of their chunks are equal or
\* neighbours, diagonal neighbours included
IntersectsOrTouches(g, h) ==
    \E c \in g, d \in h : Abs(c[1] - d[1]) <= 1 /\ Abs(c[2] - d[2]) <= 1

\* the bounding box of a geometry, in chunks: <<minx, miny, maxx, maxy>>
Envelope(g) ==
    << CHOOSE x \in {c[1] : c \in g} : \A c \in g : x <= c[1],
       CHOOSE y \in {c[2] : c \in g} : \A c \in g : y <= c[2],
       CHOOSE x \in {c[1] : c \in g} : \A c \in g : x >= c[1],
       CHOOSE y \in {c[2] : c \in g} : \A c \in g : y >= c[2] >>

\* the closed boxes of two geometries share a point
EnvelopesMeet(g, h) ==
    LET a == Envelope(g)
        b == Envelope(h)
    IN a[1] <= b[3] + 1 /\ b[1] <= a[3] + 1 /\ a[2] <= b[4] + 1 /\ b[2] <= a[4] + 1

RECURSIVE IndicesWhere(_, _, _)
\* the indices j from k on with a geometry whose box meets that of g
IndicesWhere(geoms, g, k) ==
    IF k > Len(geoms) THEN <<>>
    ELSE (IF EnvelopesMeet(g, geoms[k]) THEN <<k>> ELSE <<>>)
            \o IndicesWhere(geoms, g, k + 1)

\* line 363: tree.query(g) gives the geometries of the index whose bounding
\* box meets that of g, g itself among them; lines 367-384 resolve a
\* candidate, returned as a position or as a geometry, to its position j
QueryCandidates(geoms, i) == IndicesWhere(geoms, geoms[i], 1)

RECURSIVE PairsFrom(_, _, _)
\* lines 404-406: the pairs (i, j), i < j, in the order the two loops make them
PairsFrom(i, j, n) ==
    IF i >= n THEN <<>>
    ELSE IF j > n THEN PairsFrom(i + 1, i + 2, n)
    ELSE << <<i, j>> >> \o PairsFrom(i, j + 1, n)

\* mutant of AddEdge: only adjacency[a].add(b)
AddEdgeOneWay(adj, a, b) == [adj EXCEPT ![a] = @ \cup {b}]

\* lines 395-396, 410-411: adjacency[a].add(b); adjacency[b].add(a)
AddEdge(adj, a, b) == [adj EXCEPT ![a] = @ \cup {b}, ![b] = @ \cup {a}]

\* line 353: the regime the build takes
UsesIndex(strtree, n, force) == strtree /\ n > SpatialThreshold /\ ~force

NoAdjacency == [o \in {} |-> {}]

\* mutant of TestedEdge: a test that raised counts as an edge
TestedEdgeOnFailure(adj, nodes, geoms, i, j, ok) ==
    IF ~ok \/ IntersectsOrTouches(geoms[i], geoms[j])
    THEN AddEdge(adj, nodes[i], nodes[j])
    ELSE adj

\* lines 388-398, 408-414: the test of owners i and j; an exception adds
\* nothing
TestedEdge(adj, nodes, geoms, i, j, ok) ==
    IF ok /\ IntersectsOrTouches(geoms[i], geoms[j])
    THEN AddEdge(adj, nodes[i], nodes[j])
    ELSE adj

AdjInit ==
    /\ adjNodes = <<>>
    /\ adjGeoms = <<>>
    /\ adjExtra = 0
    /\ adjStrtree = FALSE
    /\ adjForce = FALSE
    /\ adjRegime = "none"
    /\ adjacency = NoAdjacency
    /\ adjPairs = <<>>
    /\ adjI = 1
    /\ adjCands = <<>>
    /\ adjPc = "idle"
    /\ adjOk = {}
    /\ adjFailed = {}
    /\ adjIndexFault = FALSE

\* lines 349-355, 402: nodes and the empty adjacency sets, then the choice of
\* the regime
AdjCall(n, geoms, extra, strtree, force) ==
    /\ adjPc = "idle"
    /\ adjNodes' = SubSeq(AdjKeys, 1, n)
    /\ adjGeoms' = geoms
    /\ adjExtra' = extra
    /\ adjStrtree' = strtree
    /\ adjForce' = force
    /\ adjacency' = [o \in SeqToSet(SubSeq(AdjKeys, 1, n)) |-> {}]
    /\ IF UsesIndex(strtree, n + extra, force)
       THEN /\ adjRegime' = "index"
            /\ adjPc' = "build"
            /\ adjPairs' = <<>>
       ELSE /\ adjRegime' = "pairwise"
            /\ adjPc' = "pairs"
            /\ adjPairs' = PairsFrom(1, 2, n)
    /\ adjOk' = {}
    /\ adjFailed' = {}
    /\ adjIndexFault' = FALSE
    /\ UNCHANGED <<adjI, adjCands>>
    /\ AdjFrame

\* lines 404-414: one iteration of the inner pairwise loop; ok says whether
\* ga.intersects(gb) or ga.touches(gb) went through without an exception,
\* which line 412 catches
PairStep(ok) ==
    /\ adjPc = "pairs"
    /\ adjPairs # <<>>
    /\ ~ok => Cardinality(adjFailed) < MaxTestFailures
    /\ LET i == Head(adjPairs)[1]
           j == Head(adjPairs)[2]
       IN /\ adjacency' = TestedEdge(adjacency, adjNodes, adjGeoms, i, j, ok)
          /\ adjOk' = IF ok THEN adjOk \cup {<<i, j>>} ELSE adjOk
          /\ adjFailed' = IF ok THEN adjFailed ELSE adjFailed \cup {<<i, j>>}
    /\ adjPairs' = Tail(adjPairs)
    /\ UNCHANGED <<adjNodes, adjGeoms, adjExtra, adjStrtree, adjForce, adjRegime,
                   adjI, adjCands, adjPc, adjIndexFault>>
    /\ AdjFrame

\* line 415: the pairwise loops have ended
PairsDone ==
    /\ adjPc = "pairs"
    /\ adjPairs = <<>>
    /\ adjPc' = "done"
    /\ UNCHANGED <<adjNodes, adjGeoms, adjExtra, adjStrtree, adjForce, adjRegime,
                   adjacency, adjPairs, adjI, adjCands, adjOk, adjFailed, adjIndexFault>>
    /\ AdjFrame

\* lines 356-360, 399-401: STRtree(geom_list); when it raises, the outer
\* handler passes and the build ends with the edges made so far
IndexBuild(ok) ==
    /\ adjPc = "build"
    /\ adjPc' = IF ok THEN "query" ELSE "done"
    /\ adjI' = 1
    /\ adjIndexFault' = ~ok
    /\ UNCHANGED <<adjNodes, adjGeoms, adjExtra, adjStrtree, adjForce, adjRegime,
                   adjacency, adjPairs, adjCands, adjOk, adjFailed>>
    /\ AdjFrame

\* lines 360-365: tree.query(g) for owner i; when it raises, candidates = []
IndexQuery(ok) ==
    /\ adjPc = "query"
    /\ adjI <= Len(adjNodes)
    /\ adjCands' = IF ok THEN QueryCandidates(adjGeoms, adjI) ELSE <<>>
    /\ adjPc' = "cands"
    /\ adjIndexFault' = (adjIndexFault \/ ~ok)
    /\ UNCHANGED <<adjNodes, adjGeoms, adjExtra, adjStrtree, adjForce, adjRegime,
                   adjacency, adjPairs, adjI, adjOk, adjFailed>>
    /\ AdjFrame

\* lines 366-398: one candidate of owner i; the candidate that is owner i
\* itself is skipped (385), and ok says whether resolving another candidate
\* gave its position (383) and the test went through without an exception,
\* which line 397 catches
IndexCandidate(ok) ==
    /\ adjPc = "cands"
    /\ adjCands # <<>>
    /\ ~ok => (Head(adjCands) # adjI /\ Cardinality(adjFailed) < MaxTestFailures)
    /\ LET j == Head(adjCands)
       IN IF j = adjI
          THEN UNCHANGED <<adjacency, adjOk, adjFailed>>
          ELSE /\ adjacency' = TestedEdge(adjacency, adjNodes, adjGeoms, adjI, j, ok)
               /\ adjOk' = IF ok THEN adjOk \cup {<<adjI, j>>} ELSE adjOk
               /\ adjFailed' = IF ok THEN adjFailed ELSE adjFailed \cup {<<adjI, j>>}
    /\ adjCands' = Tail(adjCands)
    /\ UNCHANGED <<adjNodes, adjGeoms, adjExtra, adjStrtree, adjForce, adjRegime,
                   adjPairs, adjI, adjPc, adjIndexFault>>
    /\ AdjFrame

\* line 360: the candidates of owner i are used up, on to the next owner
IndexNextOwner ==
    /\ adjPc = "cands"
    /\ adjCands = <<>>
    /\ adjI' = adjI + 1
    /\ adjPc' = "query"
    /\ UNCHANGED <<adjNodes, adjGeoms, adjExtra, adjStrtree, adjForce, adjRegime,
                   adjacency, adjPairs, adjCands, adjOk, adjFailed, adjIndexFault>>
    /\ AdjFrame

\* line 415: the loop over the owners has ended
IndexDone ==
    /\ adjPc = "query"
    /\ adjI > Len(adjNodes)
    /\ adjPc' = "done"
    /\ UNCHANGED <<adjNodes, adjGeoms, adjExtra, adjStrtree, adjForce, adjRegime,
                   adjacency, adjPairs, adjI, adjCands, adjOk, adjFailed, adjIndexFault>>
    /\ AdjFrame

AdjNext ==
    \/ /\ adjPc = "idle"
       /\ \E n \in 0..MaxOwners : \E geoms \in [1..n -> GeomPool] :
             \E extra \in ExtraOwners, strtree \in BOOLEAN, force \in BOOLEAN :
                AdjCall(n, geoms, extra, strtree, force)
    \/ \E ok \in BOOLEAN : PairStep(ok)
    \/ PairsDone
    \/ \E ok \in BOOLEAN : IndexBuild(ok)
    \/ \E ok \in BOOLEAN : IndexQuery(ok)
    \/ \E ok \in BOOLEAN : IndexCandidate(ok)
    \/ IndexNextOwner
    \/ IndexDone

(***************************************************************************)
(* Colouring.  A colour text is the record of whether it starts with "#"   *)
(* and of the characters after that; a colour value can also be None or a  *)
(* YAML value that is no string.                                           *)
(***************************************************************************)
\* bound: the number of owners given to a colouring run
MaxNodes == 3
\* bound: the number of runs over the same owners
MaxPasses == 3

ColorText(hash, hex) == [k |-> "str", hash |-> hash, hex |-> hex]
Col(hex) == ColorText(TRUE, hex)
NoColor == [k |-> "none", hash |-> FALSE, hex |-> ""]
NotAString == [k |-> "other", hash |-> FALSE, hex |-> ""]

\* generate_geojson.py 340-347 and 157-164: the palette
Palette == << Col("FF5500ff"), Col("AAFF00ff"), Col("00FFAAff"), Col("0088FFff"),
              Col("6600FFff"), Col("FF0099ff") >>

\* generator_core.py 59: DEFAULT_EMPIRE_COLOR = "#FF5500ff"
DEFAULT_EMPIRE_COLOR == Col("FF5500ff")

\* mutant of normalize_color_for_runtime: a text without "#" is dropped
normalize_drops_bare(color) ==
    IF color.k # "str" THEN NoColor
    ELSE IF color.hash THEN color
    ELSE NoColor

\* color_store.py 35-40: normalize_color_for_runtime
normalize_color_for_runtime(color) ==
    IF color.k # "str" THEN NoColor
    ELSE IF color.hash THEN color
    ELSE ColorText(TRUE, color.hex)

\* mutant of normalize_color_for_store: a text is written as it is
normalize_store_keeps_text(color) ==
    IF color.k # "str" THEN NoColor
    ELSE color

\* color_store.py 43-49: normalize_color_for_store
normalize_color_for_store(color) ==
    IF color.k # "str" THEN NoColor
    ELSE IF color.hash THEN color
    ELSE ColorText(TRUE, color.hex)

\* the truth value of a colour: None and "" are false
ColorTruthy(color) == color.k = "str" /\ (color.hash \/ color.hex # "")

\* a name of a store entry: a text or None
NoName == "None"

\* an entry of the YAML file: a mapping with name and color, or another value
FileEntry(name, color) == [isdict |-> TRUE, name |-> name, color |-> color]
NotAMapping == [isdict |-> FALSE, name |-> NoName, color |-> NoColor]

\* the ids of a set, in ascending order
Ascending(ids) ==
    CHOOSE sq \in [1..Cardinality(ids) -> ids] :
        \A i \in 1..Cardinality(ids), j \in 1..Cardinality(ids) : i < j => sq[i] < sq[j]

\* every order of the ids of a set: the orders in which the keys of a dict
\* with these keys can have been set
KeyOrders(ids) ==
    {sq \in [1..Cardinality(ids) -> ids] :
        \A i \in 1..Cardinality(ids), j \in 1..Cardinality(ids) : i # j => sq[i] # sq[j]}

NoEntries == [i \in {} |-> NotAMapping]
\* the YAML file: missing, or a text that yaml.safe_load reads as a mapping
\* from ids to entries (m, its keys in the order of the text), reads as a
\* value that is no mapping ("scalar"), or cannot parse ("broken").  An empty
\* file is read as None, which load_color_store takes as the empty mapping
NoFile == [exists |-> FALSE, top |-> "mapping", m |-> NoEntries, order |-> <<>>]
OrderedFile(m, keys) == [exists |-> TRUE, top |-> "mapping", m |-> m, order |-> keys]
File(m) == OrderedFile(m, Ascending(DOMAIN m))
ScalarFile == [exists |-> TRUE, top |-> "scalar", m |-> NoEntries, order |-> <<>>]
BrokenFile == [exists |-> TRUE, top |-> "broken", m |-> NoEntries, order |-> <<>>]

\* files tried
Files ==
    { NoFile,
      File([i \in {} |-> NotAMapping]),
      File([i \in {1} |-> FileEntry("a", Col("AAFF00ff"))]),
      File([i \in {1} |-> FileEntry("b", ColorText(FALSE, "AAFF00ff"))]),
      File([i \in {1, 2} |-> IF i = 1 THEN FileEntry("a", NoColor)
                                      ELSE FileEntry(NoName, ColorText(FALSE, ""))]),
      File([i \in {1, 2} |-> IF i = 1 THEN FileEntry("a", NotAString)
                                      ELSE NotAMapping]),
      File([i \in {2} |-> FileEntry("b", NoColor)]),
      OrderedFile([i \in {1, 2} |-> IF i = 1 THEN FileEntry("a", Col("AAFF00ff"))
                                             ELSE FileEntry("b", NoColor)],
                  <<2, 1>>) }

\* an entry of the store in memory
Entry(name, color) == [name |-> name, color |-> color]
EmptyStore == [i \in {} |-> Entry(NoName, NoColor)]

\* color_store.py 52-79: load_color_store; a text that does not parse gives
\* {} at lines 63-64, a value that is no mapping at lines 66-67
load_color_store(file) ==
    IF ~file.exists \/ file.top # "mapping" THEN EmptyStore
    ELSE [i \in {j \in DOMAIN file.m : file.m[j].isdict} |->
             Entry(file.m[i].name, normalize_color_for_runtime(file.m[i].color))]

\* color_store.py 91-96: dumpable, the mapping handed to yaml.safe_dump
Dumpable(mapping) ==
    [i \in DOMAIN mapping |->
        FileEntry(mapping[i].name, normalize_color_for_store(mapping[i].color))]

\* color_store.py 82-98: the file save_color_store writes; keys is the order
\* of the mapping's keys, which sort_keys=False keeps
save_color_store(mapping, keys) == OrderedFile(Dumpable(mapping), keys)

RECURSIVE KeysAfter(_, _)
\* generator_core.py 435, 452-453: the order of the keys of store after the
\* loop went through nodes, from the order keys: a dict keeps its keys in the
\* order they were first set, and line 453 sets the id of a node that
\* store.get did not find
KeysAfter(keys, nodes) ==
    IF nodes = <<>> THEN keys
    ELSE KeysAfter(IF Head(nodes)[1] \in SeqToSet(keys) THEN keys
                   ELSE Append(keys, Head(nodes)[1]),
                   Tail(nodes))


\* generator_core.py 414-422: the store a run starts from
StartStore(path, file) == IF path THEN load_color_store(file) ELSE EmptyStore

\* owner keys given to a colouring run; the third is the first id under
\* another name
ColorKeys == << <<1, "a">>, <<2, "a">>, <<1, "b">>, <<3, "a">>, <<2, "b">> >>

\* the orders in which merged_owner_geoms can hold the first n keys
NodeOrders(n) ==
    {f \in [1..n -> SeqToSet(SubSeq(ColorKeys, 1, n))] :
        \A i \in 1..n, j \in 1..n : i # j => f[i] # f[j]}

\* the symmetric graphs without self-edges on a set of keys
GraphsOn(keys) ==
    {[a \in keys |-> {b \in keys : {a, b} \in es}] :
        es \in SUBSET {p \in SUBSET keys : Cardinality(p) = 2}}

\* runs tried: every order of the first n keys, with every graph on them
SmallInputs ==
    UNION {{[nodes |-> f, adj |-> g] :
               f \in NodeOrders(n), g \in GraphsOn(SeqToSet(SubSeq(ColorKeys, 1, n)))} :
           n \in 0..MaxNodes}

\* one owner more than the palette has colours, each adjacent to all others
CrowdKeys == [k \in 1..(Len(Palette) + 1) |-> <<k, "a">>]
CrowdAdj == [a \in SeqToSet(CrowdKeys) |-> SeqToSet(CrowdKeys) \ {a}]
CrowdInputs ==
    { [nodes |-> CrowdKeys, adj |-> CrowdAdj],
      [nodes |-> [k \in 1..Len(CrowdKeys) |-> CrowdKeys[Len(CrowdKeys) + 1 - k]],
       adj |-> CrowdAdj] }

RECURSIVE InsertByDegree(_, _, _)
\* n goes before the first element of smaller degree: equal degrees keep the
\* order they come in (sorted is stable, also with reverse=True)
InsertByDegree(sq, n, adj) ==
    IF sq = <<>> THEN <<n>>
    ELSE IF Cardinality(adj[Head(sq)]) < Cardinality(adj[n]) THEN <<n>> \o sq
         ELSE <<Head(sq)>> \o InsertByDegree(Tail(sq), n, adj)

RECURSIVE sorted_nodes(_, _)
\* generate_geojson.py 425: sorted(nodes, key=lambda n: len(adjacency[n]),
\* reverse=True)
sorted_nodes(nodes, adj) ==
    IF nodes = <<>> THEN <<>>
    ELSE InsertByDegree(sorted_nodes(SubSeq(nodes, 1, Len(nodes) - 1), adj),
                        nodes[Len(nodes)], adj)

\* generate_geojson.py 430: the colours of the neighbours coloured so far
UsedAround(adj, assigned, n) ==
    {assigned[nb] : nb \in adj[n] \cap DOMAIN assigned}

\* generate_geojson.py 155-165: color_for_empire
color_for_empire(empire_id) == Palette[(empire_id % Len(Palette)) + 1]

\* generate_geojson.py 431-433: the first palette colour not used around n,
\* or color_for_empire(n[0]) when there is none
GreedyPick(adj, assigned, n) ==
    LET used == UsedAround(adj, assigned, n)
        free == {k \in 1..Len(Palette) : Palette[k] \notin used}
    IN IF free = {} THEN color_for_empire(n[1])
       ELSE Palette[CHOOSE k \in free : \A m \in free : k <= m]

\* d[key] = x on a dict
DictSet(d, key, x) == [k \in (DOMAIN d) \cup {key} |-> IF k = key THEN x ELSE d[k]]

\* generator_core.py 435-436: persisted and color_val of a node; has is
\* "persisted is not None"
Lookup(st, eid) ==
    IF eid \in DOMAIN st
    THEN [has |-> TRUE, name |-> st[eid].name, color |-> st[eid].color]
    ELSE [has |-> FALSE, name |-> NoName, color |-> NoColor]

\* mutant of StoredOrDefault: the stored colour is not looked at
AlwaysDefault(color_val) == DEFAULT_EMPIRE_COLOR

\* generator_core.py 437-438, 447: the colour of a node, from color_val
StoredOrDefault(color_val) ==
    IF ColorTruthy(color_val) THEN color_val ELSE DEFAULT_EMPIRE_COLOR

\* generator_core.py 439-442, 451-458: the store after a node, and whether
\* the node set store_updated
StoreAfter(st, n) ==
    LET p == Lookup(st, n[1])
    IN IF ColorTruthy(p.color)
       THEN IF p.name # n[2]
            THEN [store |-> DictSet(st, n[1], Entry(n[2], p.color)), updated |-> TRUE]
            ELSE [store |-> st, updated |-> FALSE]
       ELSE [store |-> DictSet(st, n[1], Entry(n[2], DEFAULT_EMPIRE_COLOR)),
             updated |-> TRUE]

\* mutant of SaveNeeded: the store is saved whenever a path is given
SaveAlways(path, updated) == path

\* generator_core.py 460: color_store_path and store_updated
SaveNeeded(path, updated) == path /\ updated

NoAssigned == [o \in {} |-> NoColor]
NoPinned == [i \in {} |-> NoColor]

\* the ids with a colour text that is not empty in the file a run with a
\* store location starts from, each with the colour it first had there
PinnedFrom(pinned, path, file) ==
    [i \in {j \in DOMAIN file.m :
                /\ path /\ file.exists /\ file.top = "mapping" /\ file.m[j].isdict
                /\ file.m[j].color.k = "str" /\ file.m[j].color.hex # ""} |->
        IF i \in DOMAIN pinned THEN pinned[i] ELSE Col(file.m[i].color.hex)]

\* what can go wrong with the store file: at load, PyYAML is missing (line
\* 57 of color_store.py raises) or reading and parsing the file raises
\* (lines 60-64); at save, PyYAML is missing, makedirs or open raises before
\* the file is touched, or the dump raises after open(path, "w") emptied it
\* and a part of the text was written.
\* written says that the last save_color_store that touched the file went
\* through, dumped is the mapping the last save_color_store handed to
\* yaml.safe_dump
NoFaults == [load |-> "none", save |-> "none", written |-> FALSE, dumped |-> NoEntries]
LoadFaults == {"none", "yaml", "read"}
SaveFaults == {"none", "yaml", "before", "during"}

ColInit ==
    /\ colVariant = "none"
    /\ colNodes = <<>>
    /\ colAdj = NoAdjacency
    /\ colOrder = <<>>
    /\ colIdx = 1
    /\ assigned_color = NoAssigned
    /\ colPath = FALSE
    /\ colFile = NoFile
    /\ store = EmptyStore
    /\ store_updated = FALSE
    /\ colPc = "idle"
    /\ colPass = 0
    /\ colLoaded = EmptyStore
    /\ colFileAtStart = NoFile
    /\ colMutated = FALSE
    /\ colSaves = 0
    /\ colPinned = NoPinned
    /\ colIo = NoFaults

\* a load fault needs a load: a store location, and for a read fault a file
LoadFaultPossible(variant, path, file, lf) ==
    \/ lf = "none"
    \/ variant = "store" /\ path /\ lf = "yaml"
    \/ variant = "store" /\ path /\ lf = "read" /\ file.exists

\* color_store.py 57-64, generator_core.py 414-422: the store a run starts
\* from; every failure of the load gives the empty store
StartStoreWith(path, file, lf) ==
    IF lf = "none" THEN StartStore(path, file) ELSE EmptyStore

\* mutant of OnLoadError: the exception of load_color_store is not caught
OnLoadErrorPropagate == "raised"

\* generator_core.py 418-420: except Exception: store = {}, and the run goes on
OnLoadError == "loop"

\* color_store.py 97-98: the files a dump that raised can leave.
\* open(path, "w") has emptied the file and yaml.safe_dump writes the entries
\* in the order of the keys, each as the lines "id:", "  name: ..." and
\* "  color: ...", a colour text in quotes: what reached the file before
\* the error is the first k entries and a part of the next one.  A cut in the
\* id, in the word color or inside the quotes leaves a text that does not
\* parse (a cut in the first id a text that is a number); a cut after "id:"
\* or in the word name leaves the id with a value that is no mapping; a cut
\* after "name:" leaves an entry without colour and with the name cut short
\* (nothing, a part of it or all of it; the names of owners are one character
\* long here); None is written as null, and a null that is cut short is read
\* as a text
PartialFiles(mapping, keys) ==
    LET full == Dumpable(mapping)
        NullCuts == {"n", "nu", "nul"}
        NameCuts(name) ==
            IF name = NoName \/ name = "nul" THEN {NoName} \cup NullCuts
            ELSE IF name = "nu" THEN {NoName, "n", "nu"}
            ELSE {NoName, name}
        First(k) == SubSeq(keys, 1, k)
        Upto(k) == OrderedFile([i \in SeqToSet(First(k)) |-> full[i]], First(k))
        With(k, e) ==
            OrderedFile([i \in SeqToSet(First(k + 1)) |->
                            IF i = keys[k + 1] THEN e ELSE full[i]],
                        First(k + 1))
        Cuts(k) ==
            LET d == full[keys[k + 1]]
            IN {Upto(k), BrokenFile, With(k, NotAMapping)}
                 \cup (IF k = 0 THEN {ScalarFile} ELSE {})
                 \cup {With(k, FileEntry(nm, NoColor)) : nm \in NameCuts(d.name)}
                 \cup (IF d.color = NoColor
                       THEN {With(k, FileEntry(d.name, ColorText(FALSE, t))) : t \in NullCuts}
                       ELSE {})
    IN UNION {Cuts(k) : k \in 0..(Len(keys) - 1)} \cup {Upto(Len(keys))}

\* color_store.py 87-98: the files save_color_store can leave, by what went
\* wrong
FilesAfterSave(file, mapping, keys, sf) ==
    IF sf = "none" THEN {save_color_store(mapping, keys)}
    ELSE IF sf = "during" THEN PartialFiles(mapping, keys)
    ELSE {file}

\* mutant of OnSaveError: the exception of save_color_store is not caught
OnSaveErrorPropagate == "raised"

\* generator_core.py 464-467: except Exception: log, and the return follows
OnSaveError == "returned"

\* the start of a run: generate_geojson.py 424-426 (the sort), or
\* generator_core.py 408-426 (the load of the store, with load fault lf)
StartRun(variant, nodes, adj, path, file, pass, lf) ==
    /\ LoadFaultPossible(variant, path, file, lf)
    /\ colVariant' = variant
    /\ colNodes' = nodes
    /\ colAdj' = adj
    /\ colPath' = path
    /\ colOrder' = IF variant = "greedy" THEN sorted_nodes(nodes, adj) ELSE nodes
    /\ colIdx' = 1
    /\ assigned_color' = NoAssigned
    /\ store' = IF variant = "store" THEN StartStoreWith(path, file, lf) ELSE EmptyStore
    /\ store_updated' = FALSE
    /\ colPc' = IF lf = "yaml" THEN OnLoadError ELSE "loop"
    /\ colPass' = pass
    /\ colLoaded' = store'
    /\ colFileAtStart' = file
    /\ colMutated' = FALSE
    /\ colSaves' = 0
    /\ colPinned' = PinnedFrom(colPinned, path, file)
    /\ colIo' = [load |-> lf, save |-> "none", written |-> colIo.written,
                 dumped |-> colIo.dumped]
    /\ UNCHANGED colFile

\* the first run, with its arguments and the file it finds
ColorCall(variant, nodes, adj, path, file) ==
    /\ colPc = "idle"
    /\ colFile = file
    /\ StartRun(variant, nodes, adj, path, file, 1, "none")
    /\ ColFrame

\* the first run of apply_colors_from_store, with what goes wrong at the load
ColorCallIO(nodes, adj, path, file, lf) ==
    /\ colPc = "idle"
    /\ colFile = file
    /\ StartRun("store", nodes, adj, path, file, 1, lf)
    /\ ColFrame

\* save_color_store called with a mapping, before the first run; keys is the
\* order in which the keys of the mapping were set, which the file keeps
SaveDirect(mapping, keys) ==
    /\ colPc = "idle"
    /\ ~colIo.written
    /\ colFile' = save_color_store(mapping, keys)
    /\ colIo' = [colIo EXCEPT !.written = TRUE, !.dumped = Dumpable(mapping)]
    /\ UNCHANGED <<colVariant, colNodes, colAdj, colOrder, colIdx, assigned_color,
                   colPath, store, store_updated, colPc, colPass, colLoaded,
                   colFileAtStart, colMutated, colSaves, colPinned>>
    /\ ColFrame

\* the file is put in place before the first run
PlaceFile(file) ==
    /\ colPc = "idle"
    /\ colFile = NoFile
    /\ file # NoFile
    /\ colFile' = file
    /\ UNCHANGED <<colVariant, colNodes, colAdj, colOrder, colIdx, assigned_color,
                   colPath, store, store_updated, colPc, colPass, colLoaded,
                   colFileAtStart, colMutated, colSaves, colPinned, colIo>>
    /\ ColFrame

\* generate_geojson.py 429-434, generator_core.py 428-458: one iteration of
\* the loop over the owners
ColorNode ==
    /\ colPc = "loop"
    /\ colIdx <= Len(colOrder)
    /\ LET n == colOrder[colIdx]
       IN IF colVariant = "greedy"
          THEN /\ assigned_color' =
                     DictSet(assigned_color, n, GreedyPick(colAdj, assigned_color, n))
               /\ UNCHANGED <<store, store_updated, colMutated>>
          ELSE LET after == StoreAfter(store, n)
               IN /\ assigned_color' =
                        DictSet(assigned_color, n,
                                StoredOrDefault(Lookup(store, n[1]).color))
                  /\ store' = after.store
                  /\ store_updated' = (store_updated \/ after.updated)
                  /\ colMutated' = (colMutated \/ after.store # store)
    /\ colIdx' = colIdx + 1
    /\ UNCHANGED <<colVariant, colNodes, colAdj, colOrder, colPath, colFile, colPc,
                   colPass, colLoaded, colFileAtStart, colSaves, colPinned, colIo>>
    /\ ColFrame

\* color_store.py 68-78, generator_core.py 428-458: the order of the keys of
\* store: those of the file that load_color_store kept, in the order of the
\* file, then the ids the loop has added
StoreKeys ==
    LET Kept(i) == i \in DOMAIN colLoaded
    IN KeysAfter(SelectSeq(colFileAtStart.order, Kept), SubSeq(colOrder, 1, colIdx - 1))

\* a save fault needs a save, and PyYAML is missing at the save iff it was
\* missing at the load
SaveFaultPossible(sf) ==
    IF colVariant = "store" /\ SaveNeeded(colPath, store_updated)
    THEN (sf = "yaml") <=> (colIo.load = "yaml")
    ELSE sf = "none"

\* generator_core.py 460-467: the save, when it is needed, with save fault
\* sf, and the return
FinishRun(sf) ==
    /\ colPc = "loop"
    /\ colIdx > Len(colOrder)
    /\ SaveFaultPossible(sf)
    /\ IF colVariant = "store" /\ SaveNeeded(colPath, store_updated)
       THEN /\ \E f \in FilesAfterSave(colFile, store, StoreKeys, sf) : colFile' = f
            /\ colSaves' = colSaves + 1
            /\ colIo' = [load |-> colIo.load, save |-> sf,
                         written |-> IF sf = "none" THEN TRUE
                                     ELSE IF sf = "during" THEN FALSE
                                     ELSE colIo.written,
                         dumped |-> IF sf \in {"none", "during"} THEN Dumpable(store)
                                    ELSE colIo.dumped]
       ELSE UNCHANGED <<colFile, colSaves, colIo>>
    /\ colPc' = IF sf = "none" THEN "returned" ELSE OnSaveError
    /\ UNCHANGED <<colVariant, colNodes, colAdj, colOrder, colIdx, assigned_color,
                   colPath, store, store_updated, colPass, colLoaded, colFileAtStart,
                   colMutated, colPinned>>
    /\ ColFrame

\* the save goes through
ColorFinish ==
    /\ colPc = "loop"
    /\ FinishRun("none")

\* the save goes through or fails
ColorFinishIO(sf) ==
    /\ colPc = "loop"
    /\ FinishRun(sf)

\* the next run of the program, over the same owners and adjacency, from the
\* file the run before left
ColorRerun ==
    /\ colPc = "returned"
    /\ colPass < MaxPasses
    /\ StartRun(colVariant, colNodes, colAdj, colPath, colFile, colPass + 1, "none")
    /\ ColFrame

\* the next run, with what goes wrong at its load
ColorRerunIO(lf) ==
    /\ colPc = "returned"
    /\ colPass < MaxPasses
    /\ StartRun(colVariant, colNodes, colAdj, colPath, colFile, colPass + 1, lf)
    /\ ColFrame

ColorNext ==
    \/ \E file \in Files : PlaceFile(file)
    \/ /\ colPc = "idle"
       /\ \E inp \in SmallInputs \cup CrowdInputs :
             ColorCall("greedy", inp.nodes, inp.adj, FALSE, NoFile)
    \/ /\ colPc = "idle"
       /\ \E inp \in SmallInputs, path \in BOOLEAN :
             ColorCall("store", inp.nodes, inp.adj, path, colFile)
    \/ ColorNode
    \/ ColorFinish
    \/ ColorRerun

(***************************************************************************)
(* merge_owner_geometries.  The union of a list of chunk polygons is the   *)
(* set of the polygons it unites.                                          *)
(***************************************************************************)
\* polygon lists tried for one owner: one chunk, two chunks, and the same
\* chunk twice
PolyLists ==
    { <<PolygonOf(<<0, 0>>)>>,
      <<PolygonOf(<<0, 1>>), PolygonOf(<<1, 1>>)>>,
      <<PolygonOf(<<1, 0>>), PolygonOf(<<1, 0>>)>> }

\* the orders in which owner_polys can hold a set of owner keys
OwnerOrders(keys) ==
    {f \in [1..Cardinality(keys) -> keys] :
        \A i \in DOMAIN f, j \in DOMAIN f : i # j => f[i] # f[j]}

\* arguments tried: any owners, in any dict order, each with a polygon list
MergeInputs ==
    UNION {{[owners |-> f, polys |-> g] : f \in OwnerOrders(keys), g \in [keys -> PolyLists]} :
           keys \in SUBSET OwnerKeys}

\* line 398: _unary_union(polys)
unary_union(polys) == SeqToSet(polys)

NoMerged == [o \in {} |-> {}]

\* mutant of AfterUnion: a failed union empties the mapping built so far
AfterUnionClears(m, o, polys, ok) ==
    IF ok THEN [k \in (DOMAIN m) \cup {o} |-> IF k = o THEN unary_union(polys) ELSE m[k]]
    ELSE NoMerged

\* lines 390-402: merged is the union, or None when the import or the union
\* raised; only a merged that is not None is stored
AfterUnion(m, o, polys, ok) ==
    IF ok THEN [k \in (DOMAIN m) \cup {o} |-> IF k = o THEN unary_union(polys) ELSE m[k]]
    ELSE m

\* mutant of OnUnionError: the exception of the union is not caught
OnUnionErrorPropagate == "raised"

\* lines 399-400: except Exception: merged = None, and the loop goes on
OnUnionError == "loop"

MrgInit ==
    /\ mrgOwners = <<>>
    /\ mrgPolys = NoPolys
    /\ mrgShapely = TRUE
    /\ mrgIdx = 1
    /\ merged_owner_geoms = NoMerged
    /\ mrgFailed = {}
    /\ mrgPc = "idle"

\* lines 384-388: the call; without Shapely (when no polygon can have been
\* built) it returns the empty mapping
MergeCall(owners, polys, hs) ==
    /\ mrgPc = "idle"
    /\ ~hs => owners = <<>>
    /\ mrgOwners' = owners
    /\ mrgPolys' = polys
    /\ mrgShapely' = hs
    /\ mrgPc' = IF hs THEN "loop" ELSE "returned"
    /\ UNCHANGED <<mrgIdx, merged_owner_geoms, mrgFailed>>
    /\ MrgFrame

\* lines 389-402: one iteration of the loop; ok says whether the import and
\* the union went through
MergeStep(ok) ==
    /\ mrgPc = "loop"
    /\ mrgIdx <= Len(mrgOwners)
    /\ LET o == mrgOwners[mrgIdx]
       IN /\ merged_owner_geoms' = AfterUnion(merged_owner_geoms, o, mrgPolys[o], ok)
          /\ mrgFailed' = IF ok THEN mrgFailed ELSE mrgFailed \cup {o}
    /\ mrgPc' = IF ok THEN "loop" ELSE OnUnionError
    /\ mrgIdx' = mrgIdx + 1
    /\ UNCHANGED <<mrgOwners, mrgPolys, mrgShapely>>
    /\ MrgFrame

\* lines 403-405: the log line and the return
MergeReturn ==
    /\ mrgPc = "loop"
    /\ mrgIdx > Len(mrgOwners)
    /\ mrgPc' = "returned"
    /\ UNCHANGED <<mrgOwners, mrgPolys, mrgShapely, mrgIdx, merged_owner_geoms,
                   mrgFailed>>
    /\ MrgFrame

MrgNext ==
    \/ /\ mrgPc = "idle"
       /\ \E inp \in MergeInputs, hs \in BOOLEAN : MergeCall(inp.owners, inp.polys, hs)
    \/ \E ok \in BOOLEAN : MergeStep(ok)
    \/ MergeReturn

\* mappings given to save_color_store directly: a colour without "#", a
\* colour that is no string next to one with "#", and no colour
SaveMappings ==
    { [i \in {1} |-> Entry("a", ColorText(FALSE, "AAFF00ff"))],
      [i \in {1, 2} |-> IF i = 1 THEN Entry("a", NotAString)
                                 ELSE Entry(NoName, Col("0088FFff"))],
      [i \in {1} |-> Entry("b", NoColor)] }

\* runs of apply_colors_from_store tried with faults: every order of the
\* first n keys (the adjacency is not an argument)
IoInputs ==
    UNION {{[nodes |-> f, adj |-> [a \in SeqToSet(SubSeq(ColorKeys, 1, n)) |-> {}]] :
               f \in NodeOrders(n)} :
           n \in 0..MaxNodes}

ColorIONext ==
    \/ \E file \in Files : PlaceFile(file)
    \/ \E mapping \in SaveMappings :
          \E keys \in KeyOrders(DOMAIN mapping) : SaveDirect(mapping, keys)
    \/ /\ colPc = "idle"
       /\ \E inp \in IoInputs, path \in BOOLEAN, lf \in LoadFaults :
             ColorCallIO(inp.nodes, inp.adj, path, colFile, lf)
    \/ ColorNode
    \/ \E sf \in SaveFaults : ColorFinishIO(sf)
    \/ \E lf \in LoadFaults : ColorRerunIO(lf)

StageInit == PolyInit /\ AdjInit /\ ColInit /\ MrgInit

Init == LimInit /\ RetryInit /\ ClientInit /\ ChunkInit /\ StageInit

SpecLimiter == Init /\ [][LimNext]_vars
SpecRetry == Init /\ [][RetryNext]_vars
SpecClient == Init /\ [][ClientNext]_vars
SpecChunks == Init /\ [][ChunkNext]_vars
SpecMain == Init /\ [][MainNext]_vars
SpecPolys == Init /\ [][PolyNext]_vars
SpecAdjacency == Init /\ [][AdjNext]_vars
SpecColor == Init /\ [][ColorNext]_vars
SpecLimiterFair == Init /\ [][LimFairNext]_vars /\ LimFairness
SpecMerge == Init /\ [][MrgNext]_vars
SpecColorIO == Init /\ [][ColorIONext]_vars

\* C1: every acquire(cost) call that has returned deducted cost tokens from
\* the bucket at a moment when at least cost tokens were in it, whether the
\* tokens were there on entry or the caller had to wait for them.
C1_ReturnedCallDeducted ==
    \A t \in Threads :
        lpc[t] = "returned" => (granted[t] = cost[t] /\ availAtDeduct[t] >= cost[t])

\* C2: with all callers using acquire(1), the calls returned in any window of
\* T ticks number at most capacity + rate * T, and the calls returned in the
\* first T ticks after construction at most rate * T.
C2_NoOverGrant ==
    unitOnly =>
        /\ \A a \in Ticks : \A b \in Ticks :
               (a <= b /\ b <= now) =>
                   SumTo(returnsAt, a, b) <= capacity + rate_per_tick * (b - a)
        /\ \A b \in Ticks :
               b <= now => SumTo(returnsAt, 0, b) <= rate_per_tick * b

(***************************************************************************)
(* Claims about _get_with_retries, checked under SpecRetry                 *)
(***************************************************************************)
RetryDone == rpc \in {"returned", "raised"}
LastOutcome == outcomes[Len(outcomes)]
IsRetryable(o) ==
    o.kind = "transport" \/ (500 <= o.status /\ o.status < 600)

\* C3: every GET attempt, first or retry, is preceded by its own completed
\* limiter.acquire(): a GET is only ever issued with one acquire more than
\* GETs made, and when the function returns or raises the two counts agree.
C3_AcquireBeforeEveryGet ==
    /\ gets <= acquires
    /\ acquires <= gets + 1
    /\ rpc = "get" => acquires = gets + 1
    /\ RetryDone => acquires = gets

C3_Witness == RetryDone /\ gets = 3 /\ acquires = 3

\* C4: whatever the attempts' outcomes, at most max_retries = 4 GET attempts
\* are made and the call then ends; when all 4 attempts ended in a transport
\* failure or a 5xx the call raises that last failure and returns no value.
C4_BoundedAttempts ==
    /\ gets <= max_retries
    /\ rpc \in {"acquire", "get"} => gets < max_retries
    /\ (rpc = "sleep" /\ gets = max_retries) => afterSleep = "raise_status"
    /\ (RetryDone /\ Len(outcomes) = max_retries
          /\ \A i \in 1..Len(outcomes) : IsRetryable(outcomes[i]))
         => /\ rpc = "raised"
            /\ rresult = IF LastOutcome.kind = "transport"
                         THEN [kind |-> "RequestException", status |-> 0]
                         ELSE [kind |-> "HTTPError", status |-> LastOutcome.status]

C4_Witness ==
    /\ rpc = "raised"
    /\ gets = max_retries
    /\ \A i \in 1..Len(outcomes) : IsRetryable(outcomes[i])
    /\ outcomes[1].kind = "transport"
    /\ LastOutcome.kind = "response"

\* C5: a 429 is never returned as a success; the call raises because of a
\* 429 only when it was the response of the 4th attempt; after a 429 of an
\* earlier attempt it sleeps Retry-After seconds when the header is present
\* and parses as a number, else the exponential backoff, and retries.
C5_429Handling ==
    /\ rpc = "returned" => rresult.status # 429
    /\ (rpc = "raised" /\ LastOutcome.kind = "response" /\ LastOutcome.status = 429)
         => gets = max_retries
    /\ \A i \in 1..Len(sleeps) :
          (outcomes[i].kind = "response" /\ outcomes[i].status = 429)
            => LET h == outcomes[i].header
               IN sleeps[i].ms - Capped(RetryAfterWait(h, i).floor) \in 0..200

\* C6 as stated: a response whose status is not 2xx, not 429 and not 5xx makes
\* the call raise at once: it is the last GET, no sleep follows it, and the
\* response is not returned.
C6_AnyOtherStatusFailsFast ==
    \A i \in 1..Len(outcomes) :
        (/\ outcomes[i].kind = "response"
         /\ ~(200 <= outcomes[i].status /\ outcomes[i].status < 300)
         /\ outcomes[i].status # 429
         /\ ~(500 <= outcomes[i].status /\ outcomes[i].status < 600))
        => (i = Len(outcomes) /\ rpc = "raised" /\ Len(sleeps) = i - 1)

\* C6 amended: a response whose status is 4xx other than 429 makes the call
\* raise at once: it is the last GET, no sleep follows it, and the response
\* is not returned.
C6_ClientErrorFailsFast ==
    \A i \in 1..Len(outcomes) :
        (/\ outcomes[i].kind = "response"
         /\ 400 <= outcomes[i].status /\ outcomes[i].status < 500
         /\ outcomes[i].status # 429)
        => (/\ i = Len(outcomes)
            /\ rpc = "raised"
            /\ rresult = [kind |-> "HTTPError", status |-> outcomes[i].status]
            /\ Len(sleeps) = i - 1)

C6_Witness ==
    /\ rpc = "raised"
    /\ Len(outcomes) = 2
    /\ LastOutcome.kind = "response"
    /\ LastOutcome.status = 404

(***************************************************************************)
(* Claims about BitJitaClient, checked under SpecClient                    *)
(***************************************************************************)
ClientDone == cresult # NoCResult
\* the request failed: _get_with_retries raised (the last transport error,
\* an HTTPError, an error of time.sleep, another error of session.get), or
\* the body is not JSON; a Ctrl-C or sys.exit that ends the process during
\* the request is no failure of the request
RequestFailed ==
    (rpc = "raised" /\ rresult.kind \notin Interruptions) \/ cbody = InvalidBody

\* C7: each BitJitaClient operation returns its empty result ([] or {}) and
\* propagates no exception when the request fails after all retries, gets a
\* non-retryable status, or has a body that cannot be parsed.
C7_ClientFailsSoft ==
    (ClientDone /\ RequestFailed) => cresult = Value(EmptyOf(cop))

\* fetch_empire got a body that is no JSON and returned {}
C7_Witness ==
    /\ ClientDone
    /\ cop = "fetch_empire"
    /\ cbody = InvalidBody
    /\ cresult = Value(EmptyDict)

(***************************************************************************)
(* Claims about process_empires_to_chunkmap, checked under SpecChunks      *)
(***************************************************************************)
\* the map that a set of task results stands for: every chunk of a result,
\* owned by the owner keys of the results that hold it
MapOfResults(rs) ==
    [c \in UNION {SeqToSet(r.chunks) : r \in rs} |->
        {<<r.eid, r.name>> : r \in {q \in rs : c \in SeqToSet(q.chunks)}}]

\* the results of the tasks that returned one, as a set
OkResults == {tresult[i] : i \in {j \in Tasks : tresult[j].kind = "ok"}}

\* C8: the chunk-ownership map returned is the same for every order in which
\* the tasks complete and are collected: it is the map of the set of the
\* per-empire task results.
C8_MapIndependentOfOrder ==
    ppc = "done" => chunkmap = MapOfResults(OkResults)

\* collected in the reverse of the sorted order, with a chunk owned by both
C8_Witness ==
    /\ ppc = "done"
    /\ Len(results) = 2
    /\ KeyLess(results[2], results[1])
    /\ \E c \in DOMAIN chunkmap : Cardinality(chunkmap[c]) = 2

\* C9: no worker task writes the shared map, and the map is written only by
\* the orchestrator's merge loop, when every submitted task has completed
\* and its result was collected.
C9_SingleWriterAfterCollect ==
    [][ /\ (\E i \in Tasks : tstate'[i] # tstate[i]) => chunkmap' = chunkmap
        /\ chunkmap' # chunkmap =>
              (ppc = "merge" /\ \A i \in Tasks : tstate[i] = "collected") ]_vars

C9_Witness ==
    /\ ppc = "merge"
    /\ chunkmap # EmptyMap
    /\ mergeIdx <= Len(sortedRes)

\* the towers C11 says contribute: active true or absent, both coordinates
\* present and in (0, 23040]
AcceptedAsStated(tw) ==
    /\ tw.isdict
    /\ tw.active \in {"true", "absent"}
    /\ tw.x.t = "num" /\ tw.y.t = "num"
    /\ 0 < tw.x.v /\ tw.x.v <= 23040
    /\ 0 < tw.y.v /\ tw.y.v <= 23040

\* the chunks of the 5 x 5 block around a tower
BlockOf(tw) == SeqToSet(tower_covered_chunks(tw.x.v, tw.y.v, 2))

\* tower k of task i is accepted and, when the cap is positive, fewer than
\* cap accepted towers come before it
AcceptedWithinCap(i, k) ==
    LET ts == tinput[i].towers
    IN /\ AcceptedAsStated(ts[k])
       /\ cap > 0 => Cardinality({j \in 1..(k - 1) : AcceptedAsStated(ts[j])}) < cap

\* the chunks the map gives to owner o
ChunksOwnedBy(o) == {c \in DOMAIN chunkmap : o \in chunkmap[c]}

\* the blocks of the towers of the tasks of owner o that Takes takes
BlocksTaken(o, Takes(_, _)) ==
    UNION {UNION {BlockOf(tinput[i].towers[k]) :
                     k \in {j \in 1..Len(tinput[i].towers) : Takes(i, j)}} :
              i \in {j \in Tasks : emps[j] = o}}

\* tower k of task i is accepted
AcceptedAt(i, k) == AcceptedAsStated(tinput[i].towers[k])

\* the owners of the map are owners of tasks
OwnersAreTaskOwners ==
    \A c \in DOMAIN chunkmap : chunkmap[c] \subseteq {emps[i] : i \in Tasks}

\* C11 as stated: a tower contributes chunks to the map if and only if its
\* active flag is true or absent and both coordinates are present with
\* 0 < value <= 23040: in the map the build returns, the chunks of an owner
\* are the blocks of the accepted towers of its tasks.
C11_ContributesIffAccepted ==
    ppc = "done" =>
        /\ OwnersAreTaskOwners
        /\ \A o \in {emps[i] : i \in Tasks} :
              ChunksOwnedBy(o) = BlocksTaken(o, AcceptedAt)

(***************************************************************************)
(* Claim about a failing empire, checked under SpecMain                    *)
(***************************************************************************)
\* a tower record that is not an object or has a coordinate that is no number
MalformedRecord(tw) == ~tw.isdict \/ tw.x.t = "str" \/ tw.y.t = "str"

\* the failures C10 names, for one task of main: the fetch failed or gave a
\* value that is no list, or the towers hold a malformed record
MainTaskFailed(i) ==
    \/ tinput[i].k # "list"
    \/ \E k \in 1..Len(tinput[i].towers) : MalformedRecord(tinput[i].towers[k])

\* every future was gone through and main is past its loop
MainCollectedAll == ppc = "main_emit" /\ \A i \in Tasks : tstate[i] = "collected"

\* C10: when fetching or transforming the towers of one empire fails (fetch
\* error, malformed tower record, worker exception), the run is not aborted,
\* that empire contributes no chunks, and every other empire's chunks are in
\* the final map as they would be without the failure (the blocks of its
\* accepted towers, read without a feature limit).
C10_FailureIsolated ==
    /\ ppc # "main_raised"
    /\ MainCollectedAll =>
          \A o \in {emps[i] : i \in Tasks} :
             LET mine == {i \in Tasks : emps[i] = o}
             IN /\ (\A i \in mine : MainTaskFailed(i)) => ChunksOwnedBy(o) = {}
                /\ ((\A i \in mine : ~MainTaskFailed(i)) /\ max_features = 0) =>
                      ChunksOwnedBy(o) =
                         UNION {UNION {BlockOf(tinput[i].towers[k]) :
                                          k \in {j \in 1..Len(tinput[i].towers) :
                                                    AcceptedWithinCap(i, j)}} :
                                   i \in mine}

(***************************************************************************)
(* Claims about build_owner_and_contested_polys, checked under SpecPolys   *)
(***************************************************************************)
\* the owners whose polygon list holds the polygon of chunk c
HoldersOf(c) ==
    {o \in DOMAIN owner_polys : PolygonOf(c) \in SeqToSet(owner_polys[o])}

\* the classification C12 states for one chunk of the argument map
ClassifiedAsStated(c) ==
    LET n == Cardinality(polyMap[c])
        inContested == PolygonOf(c) \in SeqToSet(contested_polys)
    IN /\ (Cardinality(HoldersOf(c)) = 1) <=> (n = 1)
       /\ n = 1 => HoldersOf(c) = polyMap[c]
       /\ inContested <=> (n > 1)
       /\ n > 1 => HoldersOf(c) = {}
       /\ (HoldersOf(c) = {} /\ ~inContested) <=> (n = 0)

\* C12 as stated: for every chunk of the map the polygon is in the list of
\* exactly one owner iff the chunk has exactly one owner, in the contested
\* list iff it has more than one, and in neither iff it has none.
C12_ClassifiedByOwnerCount ==
    polyPc = "returned" => \A c \in DOMAIN polyMap : ClassifiedAsStated(c)

\* C12: when Shapely is available, for every chunk of the map whose polygon
\* the constructor built, the polygon is in the list of exactly one owner
\* (the chunk's owner) iff the chunk has exactly one owner, in the contested
\* list iff it has more than one, and in neither iff it has none; the
\* polygon of a chunk whose constructor raised is in no list; without Shapely
\* both outputs are empty.
C12_ClassifiedWhenShapely ==
    polyPc = "returned" =>
        IF polyShapely
        THEN \A c \in DOMAIN polyMap :
                 IF c \in polyFailed
                 THEN HoldersOf(c) = {}
                         /\ PolygonOf(c) \notin SeqToSet(contested_polys)
                 ELSE ClassifiedAsStated(c)
        ELSE owner_polys = NoPolys /\ contested_polys = <<>>

\* a map with a chunk whose constructor raised, a chunk of one owner and a
\* contested chunk
C12_Witness ==
    /\ polyPc = "returned"
    /\ polyShapely
    /\ \E c \in polyFailed : polyMap[c] # {}
    /\ \E c \in DOMAIN polyMap \ polyFailed :
          Cardinality(polyMap[c]) = 1 /\ HoldersOf(c) = polyMap[c]
    /\ \E c \in DOMAIN polyMap \ polyFailed :
          Cardinality(polyMap[c]) = 2 /\ PolygonOf(c) \in SeqToSet(contested_polys)

(***************************************************************************)
(* Claims about the adjacency build, checked under SpecAdjacency           *)
(***************************************************************************)
\* C13: in every state of the adjacency build, in both regimes, the graph
\* is symmetric (b in adjacency[a] iff a in adjacency[b]) and has no
\* self-edge.
C13_SymmetricNoSelfEdge ==
    \A a \in DOMAIN adjacency :
        /\ a \notin adjacency[a]
        /\ \A b \in adjacency[a] : b \in DOMAIN adjacency /\ a \in adjacency[b]

\* the index regime, in the middle of the candidates of an owner, with an
\* edge already made
C13_Witness ==
    /\ adjRegime = "index"
    /\ adjPc = "cands"
    /\ adjCands # <<>>
    /\ \E a \in DOMAIN adjacency : adjacency[a] # {}

\* the edges the geometries call for: every pair of distinct owners whose
\* geometries intersect or touch, and no other
EdgesOfGeometries ==
    [a \in SeqToSet(adjNodes) |->
        {adjNodes[j] : j \in {k \in 1..Len(adjNodes) :
            /\ adjNodes[k] # a
            /\ \E i \in 1..Len(adjNodes) :
                  adjNodes[i] = a /\ IntersectsOrTouches(adjGeoms[i], adjGeoms[k])}}]

\* C14: for the same merged geometries the index regime and the pairwise
\* regime give the same edge set, the one of the pairs whose geometries
\* intersect or touch, also when building or querying the index fails
\* (in a build in which no test of a pair raised; those are C24's).
C14_RegimesGiveSameEdges ==
    (adjPc = "done" /\ adjFailed = {}) => adjacency = EdgesOfGeometries

(***************************************************************************)
(* Claims about the colouring, checked under SpecColor                     *)
(***************************************************************************)
\* the positions of colOrder whose owner the loop has coloured
Coloured == 1..(colIdx - 1)

\* the id has a colour that is not empty in the store as it was loaded
HasLoadedColor(eid) ==
    /\ eid \in DOMAIN colLoaded
    /\ colLoaded[eid].color.k = "str"
    /\ (colLoaded[eid].color.hash \/ colLoaded[eid].color.hex # "")

\* the name of the last coloured owner with this id, or the loaded name
LastNameOf(eid) ==
    LET ks == {k \in Coloured : colOrder[k][1] = eid}
    IN IF ks = {} THEN colLoaded[eid].name
       ELSE colOrder[CHOOSE k \in ks : \A m \in ks : m <= k][2]

\* C15: every owner whose id has a non-empty colour in the loaded store is
\* given exactly that colour, whatever its neighbours have, and the entry
\* keeps that colour, only its name being refreshed to the owner's name.
C15_StoredColorReused ==
    /\ \A k \in Coloured :
          HasLoadedColor(colOrder[k][1]) =>
             assigned_color[colOrder[k]] = colLoaded[colOrder[k][1]].color
    /\ \A eid \in DOMAIN colLoaded :
          HasLoadedColor(eid) =>
             /\ eid \in DOMAIN store
             /\ store[eid].color = colLoaded[eid].color
             /\ store[eid].name = LastNameOf(eid)

\* two adjacent owners of one id were both given its stored colour, and the
\* stored name was refreshed
C15_Witness ==
    /\ colVariant = "store"
    /\ colPc = "returned"
    /\ \E n \in DOMAIN assigned_color :
          /\ HasLoadedColor(n[1])
          /\ assigned_color[n] = Col("AAFF00ff")
          /\ store[n[1]].name # colLoaded[n[1]].name
          /\ \E nb \in colAdj[n] : assigned_color[nb] = assigned_color[n]

\* the owner at position k had no stored colour when its turn came: its id
\* has none in the loaded store and no owner of that id was coloured before
NewAt(k) ==
    /\ ~HasLoadedColor(colOrder[k][1])
    /\ \A j \in 1..(k - 1) : colOrder[j][1] # colOrder[k][1]

\* the first palette colour not given to a neighbour coloured before
\* position k, or the palette colour at the owner's id mod 6 when the
\* neighbours use all six
FreeColorAt(k) ==
    LET n == colOrder[k]
        used == {assigned_color[colOrder[j]] :
                    j \in {i \in 1..(k - 1) : colOrder[i] \in colAdj[n]}}
        free == {c \in 1..6 : Palette[c] \notin used}
    IN IF free = {} THEN Palette[(n[1] % 6) + 1]
       ELSE Palette[CHOOSE c \in free : \A d \in free : c <= d]

\* the store holds the colour given to the owner at position k
RecordedAt(k) ==
    /\ colOrder[k][1] \in DOMAIN store
    /\ store[colOrder[k][1]].color = assigned_color[colOrder[k]]

\* C16 as stated: an owner with no stored colour receives the first palette
\* colour not assigned to an already-coloured neighbour, or palette[id mod 6]
\* when all six are used around it, and the assignment is recorded in the
\* store.
C16_NewOwnerGetsFreeColorRecorded ==
    \A k \in Coloured :
        NewAt(k) => (assigned_color[colOrder[k]] = FreeColorAt(k) /\ RecordedAt(k))

RECURSIVE GreedyFrom(_, _, _, _)
\* the colours the greedy loop gives from position k of order on
GreedyFrom(order, adj, k, assigned) ==
    IF k > Len(order) THEN assigned
    ELSE GreedyFrom(order, adj, k + 1,
                    DictSet(assigned, order[k], GreedyPick(adj, assigned, order[k])))

RECURSIVE StoreFrom(_, _, _, _)
\* the colours the loop of apply_colors_from_store gives from position k on
StoreFrom(order, k, st, assigned) ==
    IF k > Len(order) THEN assigned
    ELSE StoreFrom(order, k + 1, StoreAfter(st, order[k]).store,
                   DictSet(assigned, order[k],
                           StoredOrDefault(Lookup(st, order[k][1]).color)))

\* the assignment of a run that finds the owners in the order nodes
AssignmentFor(nodes) ==
    IF colVariant = "greedy"
    THEN GreedyFrom(sorted_nodes(nodes, colAdj), colAdj, 1, NoAssigned)
    ELSE StoreFrom(nodes, 1, colLoaded, NoAssigned)

\* C17: owners are coloured in descending order of degree and, at equal
\* degree, in ascending order of owner key, so the assignment of a run is
\* the one it makes for any other insertion order of the same owners and
\* edges.
C17_SameForEveryInsertionOrder ==
    (colPc = "returned" /\ Len(colNodes) <= MaxNodes) =>
        \A other \in NodeOrders(Len(colNodes)) :
            AssignmentFor(other) = assigned_color

\* C18: once an owner id has a persisted colour, every later run over the
\* same owners and adjacency that starts from the store the run before left
\* gives the owners of that id that same colour, for any number of runs.
C18_PersistedColorStable ==
    \A k \in Coloured :
        colOrder[k][1] \in DOMAIN colPinned =>
           assigned_color[colOrder[k]] = colPinned[colOrder[k][1]]

\* the third run: one id keeps the colour the file held from the start,
\* another the colour the first run persisted for it
C18_Witness ==
    /\ colPass = 3
    /\ colPc = "returned"
    /\ \E n \in DOMAIN assigned_color :
          /\ n[1] \in DOMAIN colPinned
          /\ assigned_color[n] = Col("AAFF00ff")
    /\ \E n \in DOMAIN assigned_color :
          /\ n[1] \in DOMAIN colPinned
          /\ assigned_color[n] = Col("FF5500ff")

\* C19 as stated: a second run over the same owners and adjacency, from the
\* store the first run produced, mutates no entry: store_updated stays
\* false and nothing is saved, also when an id occurs under two names.
C19_SecondRunMutatesNothing ==
    (colVariant = "store" /\ colPath /\ colPass = 2) =>
        (~store_updated /\ ~colMutated /\ colSaves = 0)

\* C20: at the end of a run that was given a store location the store is
\* saved if and only if an entry was added or changed during the run; a run
\* that changes no entry saves nothing and leaves the file as it was.
C20_SavedIffChanged ==
    (colVariant = "store" /\ colPath /\ colPc = "returned") =>
        /\ colSaves = (IF colMutated THEN 1 ELSE 0)
        /\ colMutated => colFile = save_color_store(store, StoreKeys)
        /\ ~colMutated => colFile = colFileAtStart

\* a second run that changed nothing and left the file of the first, which
\* had saved it
C20_Witness ==
    /\ colVariant = "store"
    /\ colPath
    /\ colPass = 2
    /\ colPc = "returned"
    /\ colNodes # <<>>
    /\ ~colMutated
    /\ colSaves = 0
    /\ colFile = save_color_store(store, StoreKeys)

\* every owner of the run has fewer than six neighbours
PaletteSuffices == \A n \in DOMAIN colAdj : Cardinality(colAdj[n]) < Len(Palette)

\* no owner has the colour of one of its neighbours
AdjacentDiffer ==
    \A n \in DOMAIN assigned_color : \A nb \in colAdj[n] :
        assigned_color[n] # assigned_color[nb]

\* C29 as stated: after a colouring run started from an empty store, no two
\* adjacent owners have the same colour whenever every owner has fewer than
\* 6 neighbours.
C29_AdjacentOwnersDiffer ==
    (colPc = "returned" /\ colLoaded = EmptyStore /\ PaletteSuffices) => AdjacentDiffer

(***************************************************************************)
(* Claims about the cap, the block of a tower and the reads of the map,    *)
(* checked under SpecChunks                                                *)
(***************************************************************************)
\* the indices of the valid towers of a list: records with active true or
\* absent and both coordinates in (0, 23040]
ValidIdx(ts) == {k \in 1..Len(ts) : AcceptedAsStated(ts[k])}

\* the number of valid towers a list contributes under cap c
Quota(ts, c) ==
    IF c > 0 THEN Min(c, Cardinality(ValidIdx(ts))) ELSE Cardinality(ValidIdx(ts))

\* the indices of the first n valid towers
FirstValid(ts, n) ==
    {k \in ValidIdx(ts) : Cardinality({j \in ValidIdx(ts) : j < k}) < n}

\* the blocks of the first valid towers, as many as the cap lets through, of
\* the tasks of owner o
BlocksWithinCap(o) ==
    UNION {UNION {BlockOf(tinput[i].towers[k]) :
                     k \in FirstValid(tinput[i].towers, Quota(tinput[i].towers, cap))} :
              i \in {j \in Tasks : emps[j] = o}}

\* C25 as stated: with a per-empire cap k > 0 an empire contributes the
\* coverage of exactly the first min(k, number of valid towers) valid towers
\* in response order, and no tower after the cap is reached is processed;
\* with cap 0 every valid tower of the empire contributes.  Stated of the map
\* the build returns.
C25_CapStopsAtFirstK ==
    ppc = "done" =>
        /\ \A i \in Tasks : cap > 0 => tresult[i].handled <= cap
        /\ \A o \in {emps[i] : i \in Tasks} : ChunksOwnedBy(o) = BlocksWithinCap(o)

\* the 25 chunks at offsets -2..+2 in both axes from the chunk of tile (x, y)
Window(x, y) ==
    {<<(x \div 96) + dx, (y \div 96) + dy>> : dx \in -2..2, dy \in -2..2}

\* C26 as stated: each valid tower at integer tile (x, y) claims for its
\* owner exactly the 25 chunks (floor(x/96)+dx, floor(y/96)+dy) with dx and
\* dy in -2..+2, no more and no fewer: in the map the build returns the
\* owner is in the owner set of each chunk of the window of each of its valid
\* towers, and owns no chunk outside these windows.
C26_TowerClaimsItsWindow ==
    ppc = "done" =>
        /\ \A i \in Tasks :
              \A k \in ValidIdx(tinput[i].towers) :
                 LET tw == tinput[i].towers[k]
                 IN /\ Cardinality(Window(tw.x.v, tw.y.v)) = 25
                    /\ \A c \in Window(tw.x.v, tw.y.v) :
                          c \in DOMAIN chunkmap /\ emps[i] \in chunkmap[c]
        /\ \A o \in {emps[i] : i \in Tasks} :
              ChunksOwnedBy(o) \subseteq
                 UNION {UNION {Window(tinput[i].towers[k].x.v, tinput[i].towers[k].y.v) :
                                  k \in ValidIdx(tinput[i].towers)} :
                           i \in {j \in Tasks : emps[j] = o}}

\* C27: in every state of the pipeline every key of the chunk-ownership map
\* has an owner set that is not empty: a chunk with zero owners is never
\* materialized, neither while the builder fills the map nor when the
\* aggregation and emission stages read the map it returned.
C27_NoChunkWithoutOwner ==
    \A c \in DOMAIN chunkmap : chunkmap[c] # {}

\* the builder returned a map with a chunk of two owners and a stage has gone
\* through its items
C27_Witness ==
    /\ ppc \in StageReaders
    /\ \E c \in DOMAIN chunkmap : Cardinality(chunkmap[c]) = 2

\* the results collected so far, as a set
CollectedResults == {results[k] : k \in 1..Len(results)}

\* C22: when a top-level interrupt arrives while tower results are being
\* fetched or collected, the chunk ownership gathered from the empires
\* completed so far is what the pipeline goes on with: the map holds the
\* chunks of the results collected before the interrupt.
C22_InterruptKeepsGathered ==
    ppc \in {"interrupted", "raised"} => chunkmap = MapOfResults(CollectedResults)

(***************************************************************************)
(* Claims about merge_owner_geometries, checked under SpecMerge            *)
(***************************************************************************)
\* the owners of the argument
MergeArgOwners == {mrgOwners[k] : k \in 1..Len(mrgOwners)}

\* C23: an owner whose polygon union fails is absent from the merged-geometry
\* mapping, every other owner's merged geometry is still produced, the one
\* its own polygons give, and merge_owner_geometries returns normally
\* instead of raising.
C23_FailedUnionDropsOnlyThatOwner ==
    /\ mrgPc # "raised"
    /\ mrgPc = "returned" =>
          /\ DOMAIN merged_owner_geoms = MergeArgOwners \ mrgFailed
          /\ \A o \in MergeArgOwners \ mrgFailed :
                merged_owner_geoms[o] =
                   {mrgPolys[o][k] : k \in 1..Len(mrgPolys[o])}

\* of three owners the union of the second failed; the first and the third
\* are in the mapping
C23_Witness ==
    /\ mrgPc = "returned"
    /\ Len(mrgOwners) = 3
    /\ mrgFailed = {mrgOwners[2]}
    /\ DOMAIN merged_owner_geoms = {mrgOwners[1], mrgOwners[3]}

(***************************************************************************)
(* Claims about failing pair tests, checked under SpecAdjacency            *)
(***************************************************************************)
\* the pairs of positions of distinct owners
OwnerPairs == {p \in (1..Len(adjNodes)) \X (1..Len(adjNodes)) : p[1] < p[2]}

\* a test of the pair raised, from either side
TestFailed(p) == <<p[1], p[2]>> \in adjFailed \/ <<p[2], p[1]>> \in adjFailed

\* a test of the pair went through, from either side
TestPassed(p) == <<p[1], p[2]>> \in adjOk \/ <<p[2], p[1]>> \in adjOk

\* the pair has its edge
HasEdge(p) == adjNodes[p[2]] \in adjacency[adjNodes[p[1]]]

\* the geometries of the pair intersect or touch
Meets(p) == IntersectsOrTouches(adjGeoms[p[1]], adjGeoms[p[2]])

\* C24 as stated: in either regime a failure while resolving or testing one
\* candidate pair adds no edge for that pair and does not stop the build:
\* every other pair of owners is still tested and gets its edge iff its
\* geometries intersect or touch (read for the builds in which the index
\* was built and every query went through; C14 is about the others).
C24_FailedPairHasNoEdge ==
    (adjPc = "done" /\ ~adjIndexFault) =>
        \A p \in OwnerPairs :
           /\ TestFailed(p) => ~HasEdge(p)
           /\ ~TestFailed(p) => (HasEdge(p) <=> Meets(p))

\* C24: a failure while resolving or testing a candidate is swallowed: the
\* test adds no edge and the build goes on.  A pair has its edge iff a test
\* of it went through on geometries that intersect or touch.  The pairwise
\* regime tests every pair once, so there the pair whose test failed has no
\* edge and every other pair has its edge iff its geometries intersect or
\* touch; the index regime, with the index built and every query through,
\* tests every pair whose bounding boxes meet once from each side.
C24_FailedTestAddsNoEdge ==
    adjPc = "done" =>
        /\ \A p \in OwnerPairs : HasEdge(p) <=> (TestPassed(p) /\ Meets(p))
        /\ adjRegime = "pairwise" =>
              \A p \in OwnerPairs :
                 /\ <<p[2], p[1]>> \notin adjOk \cup adjFailed
                 /\ (p \in adjOk) # (p \in adjFailed)
                 /\ TestFailed(p) => ~HasEdge(p)
                 /\ ~TestFailed(p) => (HasEdge(p) <=> Meets(p))
        /\ (adjRegime = "index" /\ ~adjIndexFault) =>
              \A p \in OwnerPairs :
                 EnvelopesMeet(adjGeoms[p[1]], adjGeoms[p[2]]) =>
                    /\ (p \in adjOk) # (p \in adjFailed)
                    /\ (<<p[2], p[1]>> \in adjOk) # (<<p[2], p[1]>> \in adjFailed)

\* a pairwise build of three owners in which the first test raised: the
\* pair has no edge although its geometries touch, the third pair has its
\* edge
C24_Witness ==
    /\ adjPc = "done"
    /\ adjRegime = "pairwise"
    /\ Len(adjNodes) = 3
    /\ adjFailed = {<<1, 2>>}
    /\ Meets(<<1, 2>>) /\ ~HasEdge(<<1, 2>>)
    /\ Meets(<<2, 3>>) /\ HasEdge(<<2, 3>>)

(***************************************************************************)
(* Claims about the store file and its failures, checked under SpecColorIO *)
(***************************************************************************)
\* the load or the save of this run failed
RunHadFault == colIo.load # "none" \/ colIo.save # "none"

\* C21: a failure to load the colour store is treated as an empty store, and
\* a failure to save it is logged and ignored: in both cases the colouring
\* run completes without raising and returns a colour for every owner it was
\* given.
C21_LoadAndSaveFailuresSurvived ==
    /\ colPc # "raised"
    /\ (colIo.load # "none" \/ colFileAtStart.top # "mapping") => colLoaded = EmptyStore
    /\ (colPc = "returned" /\ (RunHadFault \/ colFileAtStart.top # "mapping")) =>
          /\ DOMAIN assigned_color = SeqToSet(colNodes)
          /\ \A n \in DOMAIN assigned_color : ColorTruthy(assigned_color[n])

\* a run over two owners whose load of a file with stored colours failed and
\* whose save failed after the file was opened has returned
C21_Witness ==
    /\ colPc = "returned"
    /\ colIo.load = "read"
    /\ colIo.save = "during"
    /\ Len(colNodes) = 2
    /\ \E i \in DOMAIN colFileAtStart.m : ColorTruthy(colFileAtStart.m[i].color)
    /\ DOMAIN assigned_color = SeqToSet(colNodes)

\* the colours of the entries of a file, and of a store in memory
FileColors(file) == {file.m[i].color : i \in {j \in DOMAIN file.m : file.m[j].isdict}}
StoreColors(st) == {st[i].color : i \in DOMAIN st}

\* a colour that is a string starts with "#"
HashedIfText(color) == color.k = "str" => color.hash

\* C28: every colour string returned by load_color_store or written by
\* save_color_store starts with "#", and normalizing an already normalized
\* colour returns it unchanged.
C28_ColorsCarryHash ==
    /\ \A c \in StoreColors(colLoaded) : HashedIfText(c)
    /\ \A i \in DOMAIN colIo.dumped : HashedIfText(colIo.dumped[i].color)
    /\ colIo.written => \A c \in FileColors(colFile) : HashedIfText(c)
    /\ \A c \in FileColors(colFile) \cup FileColors(colFileAtStart) \cup StoreColors(store) :
          /\ normalize_color_for_runtime(normalize_color_for_runtime(c))
                = normalize_color_for_runtime(c)
          /\ normalize_color_for_store(normalize_color_for_store(c))
                = normalize_color_for_store(c)
          /\ normalize_color_for_store(normalize_color_for_runtime(c))
                = normalize_color_for_runtime(c)

\* a run found a colour without "#" in the file, loaded it with "#", and
\* saved the store: the file now holds it with "#"
C28_Witness ==
    /\ colPc = "returned"
    /\ colIo.written
    /\ \E i \in DOMAIN colFileAtStart.m :
          /\ colFileAtStart.m[i].color = ColorText(FALSE, "AAFF00ff")
          /\ i \in DOMAIN colLoaded
          /\ colLoaded[i].color = ColorText(TRUE, "AAFF00ff")
          /\ i \in DOMAIN colFile.m
          /\ colFile.m[i].color = ColorText(TRUE, "AAFF00ff")

\* the ids that had a non-empty colour in the file when the run started
ColoredBefore ==
    {i \in DOMAIN colFileAtStart.m :
        /\ colFileAtStart.m[i].isdict
        /\ ColorTruthy(normalize_color_for_runtime(colFileAtStart.m[i].color))}

\* the file holds for id i the colour it held when the run started
KeptInFile(i) ==
    /\ i \in DOMAIN colFile.m
    /\ colFile.m[i].isdict
    /\ normalize_color_for_runtime(colFile.m[i].color)
          = normalize_color_for_runtime(colFileAtStart.m[i].color)

\* C30 as stated: a colouring run never removes a store entry and never
\* changes the colour of an entry that had a non-empty colour: every id with
\* a colour in the persisted store before the run has the same colour in the
\* persisted store after it, also when the owner is absent from the run and
\* when loading the store fails.
C30_PersistedColorsSurvive ==
    (colVariant = "store" /\ colPath /\ colPc = "returned") =>
        \A i \in ColoredBefore : KeptInFile(i)

(***************************************************************************)
(* Claims about the bucket and the lock, checked under SpecLimiter         *)
(***************************************************************************)
\* C31 as stated: every interval of elapsed time is credited to the bucket
\* at most once: over any sequence of acquire calls by any threads, the
\* total of the tokens added to the bucket never exceeds rate_per_min / 60
\* times the time elapsed since construction, also after calls that had to
\* wait.
C31_EachIntervalCreditedOnce == credited <= rate_per_tick * now

\* C32: in every reachable state of a limiter with capacity >= 1 used with
\* costs > 0, 0 <= tokens <= capacity; the count is 0 at construction and
\* until the first call has done its bookkeeping, so nothing is granted at
\* startup.
C32_TokensWithinBucket ==
    /\ capacity >= 1
    /\ \A t \in Threads : cost[t] > 0
    /\ 0 <= tokens
    /\ tokens <= capacity
    /\ (calls = 0 \/ (calls = 1 /\ lockHolder # 0)) => tokens = 0

\* a call asking for more than the capacity found the bucket refilled to the
\* capacity after more ticks than the capacity pays for, and is asleep
C32_Witness ==
    /\ tokens = capacity
    /\ now - last > capacity
    /\ \E t \in Threads : lpc[t] = "sleeping" /\ cost[t] > capacity

\* C33: no thread sleeps while holding the limiter lock: the lock is held
\* only for the refill-and-deduct bookkeeping and is released on every path
\* before any wait, so a waiting caller never blocks another caller's
\* bookkeeping.
C33_NoSleepUnderLock ==
    /\ \A t \in Threads : lpc[t] \in {"sleeping", "returned", "idle"} => lockHolder # t
    /\ lockHolder # 0 => lpc[lockHolder] = "locked"
    /\ (\A t \in Threads : lpc[t] # "locked") => lockHolder = 0

\* while one caller is asleep another holds the lock for its bookkeeping
C33_Witness ==
    \E t \in Threads, u \in Threads :
        /\ lpc[t] = "sleeping"
        /\ now < wakeAt[t]
        /\ lpc[u] = "locked"
        /\ lockHolder = u

\* a call of thread t is under way
InAcquire(t) == lpc[t] \in {"entering", "locked", "sleeping"}

\* C34: under fair scheduling every call to acquire eventually returns, for
\* any number of concurrent callers and any cost, also a cost above the
\* capacity: no caller waits for the lock or sleeps forever. The calls are
\* finitely many and a call under way ends only by returning, so this is:
\* from some point on no call is under way.
C34_EveryAcquireReturns == <>[](\A t \in Threads : ~InAcquire(t))

\* a call that asked for more than the capacity has slept and returned, and
\* another call had to wait for the lock meanwhile
C34_Witness ==
    \E t \in Threads, u \in Threads :
        /\ lpc[t] = "returned"
        /\ waited[t]
        /\ cost[t] > capacity
        /\ u # t
        /\ lpc[u] = "returned"
        /\ calls >= 2

(***************************************************************************)
(* Claim about the identity of an owner, checked under SpecChunks          *)
(***************************************************************************)
\* the empire ids of the owners of a chunk
IdsAt(c) == {o[1] : o \in chunkmap[c]}

\* C35 as stated: ownership identity is the integer empire id alone: a chunk
\* covered only by towers of one empire id has an owner set of size 1 and is
\* never classified contested, also when that id is processed under two
\* display names.
C35_OwnerIsTheId ==
    ppc = "done" =>
        \A c \in DOMAIN chunkmap :
            Cardinality(IdsAt(c)) = 1 =>
                /\ Cardinality(chunkmap[c]) = 1
                /\ Classify(chunkmap[c]) # "contested"

=============================================================================
